---- MODULE Spec2Model ----
(***************************************************************************)
(* Bazarino bot: checkout state machine, stock commit, orders and the      *)
(* versioned product cache (src/main.py; src/handlers.py is a second       *)
(* variant of the same handlers).                                          *)
(*                                                                         *)
(* One session per user.  A handler that awaits a store call is split at   *)
(* each await: pc[u] is the await the handler of user u is suspended at.   *)
(* Handlers of different users interleave at these points (one asyncio     *)
(* loop).  Updates of one user are delivered one at a time (environment    *)
(* assumption of this specification: an update of u is dispatched only     *)
(* while pc[u] = "idle").                                                  *)
(* A call that raises is a branch of the step that makes it; the reply a   *)
(* handler sends from inside its except block is taken to be delivered.    *)
(***************************************************************************)
EXTENDS Integers, Sequences, FiniteSets, TLC

\* ------------------------------------------------------------- bounds
MaxStock == 2
MaxQty == 2
MaxVersion == 1
MaxCheckouts == 1
Now == 2

\* ------------------------------------------------------------- universe
Users == {"u1", "u2"}
Products == {"p1", "p2"}
Dests == {"Perugia"}

\* unit price captured on the cart line at add time (main.py:709-715)
Price == [p \in Products |-> IF p = "p1" THEN 10 ELSE 20]
\* the name of a product (column fa of the Products sheet)
Fa == [p \in Products |-> IF p = "p1" THEN "berenj" ELSE "chai"]

\* main.py:508  get_products._ts = utcnow() + timedelta(seconds=60)
CACHE_TTL == 60

\* ------------------------------------------------------------- texts
\* A message text is a sequence of tokens; " " is a run of whitespace.
SKIP == <<"/skip">>
CANCEL == <<"/cancel">>
SAVE == <<"SAVE10">>
FreeTexts == { <<"A">>, <<" ", "A", " ">> }
DiscountTexts == { SKIP, CANCEL, SAVE, <<"SAVE10", " ">>, <<"NOPE">> }
NotesTexts == { SKIP, CANCEL, <<"A", " ">> }

RECURSIVE LStrip(_)
LStrip(s) == IF s # <<>> /\ Head(s) = " " THEN LStrip(Tail(s)) ELSE s

RECURSIVE RStrip(_)
RStrip(s) == IF s # <<>> /\ s[Len(s)] = " " THEN RStrip(SubSeq(s, 1, Len(s) - 1)) ELSE s

\* str.lstrip() in the place of str.strip()
Strip_Left(s) == LStrip(s)

\* str.strip()
Strip(s) == RStrip(LStrip(s))

\* filters.COMMAND: the text starts with a bot command
IsCommand(s) == s # <<>> /\ Head(s) \in {"/skip", "/cancel"}

\* ------------------------------------------------------------- carts
Line(p, q) == [id |-> p, fa |-> Fa[p], qty |-> q, price |-> Price[p]]

\* the carts checked out here: one line, two lines in either order
InitCarts ==
    { <<Line("p1", 1)>>, <<Line("p1", MaxQty)>>,
      <<Line("p1", 1), Line("p2", MaxQty)>>, <<Line("p2", 1), Line("p1", 1)>> }

RECURSIVE SumSeq(_)
SumSeq(s) == IF s = <<>> THEN 0 ELSE Head(s) + SumSeq(Tail(s))

\* main.py:533  cart_total = lambda c: sum(i["qty"] * i["price"] for i in c)
cart_total(c) == SumSeq([i \in 1..Len(c) |-> c[i].qty * c[i].price])

\* ------------------------------------------------------------- discounts
\* The Discounts sheet as load_discounts returns it: code -> row.  valid_until is
\* kept as the cell holds it (load_discounts does not parse it): date_ok says
\* whether strptime(valid_until, "%Y-%m-%d") parses, at is the instant it yields.
DRow(pct, ok, at, act) ==
    [discount_percent |-> pct, date_ok |-> ok, at |-> at, is_active |-> act]
NoDiscounts == [c \in {} |-> DRow(0, TRUE, 0, FALSE)]
OneDiscount(r) == [c \in {SAVE} |-> r]
DiscountTables ==
    { NoDiscounts,
      OneDiscount(DRow(10, TRUE, Now + 1, TRUE)),
      OneDiscount(DRow(50, TRUE, Now, TRUE)),
      OneDiscount(DRow(10, TRUE, Now - 1, TRUE)),
      OneDiscount(DRow(10, TRUE, Now + 1, FALSE)),
      OneDiscount(DRow(10, FALSE, 0, TRUE)) }

\* ------------------------------------------------------------- state
VARIABLES
    stock,      \* Products sheet, stock column: product id -> int
    version,    \* Products sheet, cell L1 (version marker)
    discounts,  \* Discounts sheet
    orders,     \* Orders sheet: sequence of appended rows
    abandoned,  \* AbandonedCarts sheet: sequence of appended rows
    cache,      \* get_products._data / _version / _ts (process-wide)
    now,        \* utcnow()
    fsm,        \* per user: checkout state (ConversationHandler state / outcome)
    data,       \* per user: ctx.user_data
    pc,         \* per user: await point of the handler in flight, or "idle"
    loc,        \* per user: locals of confirm_order / update_stock in flight
    hist,       \* per user: what the last confirm_order run did, in order
    stock0,     \* the stock column as it was at start
    raced,      \* some update_stock read the sheet while another was past its read
    nextOid,    \* number of order ids drawn so far
    runs,       \* per user: checkouts begun so far
    last,       \* per user: the last message a checkout handler took, and how it went
    cart0,      \* per user: the cart the session came with
    job,        \* per user: the cart handler in flight (router callbacks)
    ops,        \* per user: the last cart operations that were decided
    gets,       \* the last get_products calls that returned
    rt,         \* the retry_gspread call in work
    reqs,       \* the webhook requests: each one's update and handler run
    gp,         \* the get_products / update_stock calls in flight, await by await
    ld,     \* the Products rows a load_products call was given, and what it made of them
    sw,     \* the send_cart_reminder run: what it read, where it stands, what it sent
    pr,     \* the Products sheet row by row, and the update_stock run over it
    po      \* the status poller: the Orders sheet it reads, its mark, its position

vars == <<stock, version, discounts, orders, abandoned, cache, now,
          fsm, data, pc, loc, hist, stock0, raced, nextOid, runs, last, cart0,
          job, ops, gets, rt, reqs, gp, ld, sw, pr, po>>

\* ctx.user_data: keys present and their values (values of absent keys are empty)
Collected == {"name", "phone", "address", "postal", "discount_code", "notes"}
Cleared ==
    [keys |-> {}, dest |-> "", name |-> <<>>, phone |-> <<>>, address |-> <<>>,
     postal |-> <<>>, discount_code |-> <<>>, notes |-> <<>>, cart |-> <<>>]

\* locals of the confirm_order run in flight (kept until the next run begins):
\* records = what update_stock read, idx = line in work, cur = version probed,
\* commit = what update_stock returned, wrote/cwrote = products this run wrote
\* to the sheet / to the cache, fault = an await of this run raised
NoLoc ==
    [records |-> [p \in Products |-> 0], idx |-> 0, cur |-> 0, oid |-> 0, total |-> 0,
     discount |-> 0, commit |-> "none", wrote |-> {}, cwrote |-> {}, fault |-> FALSE,
     lines |-> 0, mark |-> 0, ts |-> 0]

\* last[u]: msg = the text taken, from = the state it was taken in, seen = the
\* discount table ask_notes read for it, raised = "no", "reply" (a reply raised)
\* or "date" (strptime raised)
NoLast == [msg |-> <<>>, from |-> "NoCheckout", seen |-> <<>>, raised |-> "no"]
Took(msg, st, tbl, r) == [msg |-> msg, from |-> st, seen |-> tbl, raised |-> r]

Intermediate ==
    {"AwaitingName", "AwaitingPhone", "AwaitingAddress", "AwaitingPostal",
     "AwaitingDiscount", "AwaitingNotes"}
Terminal == {"Completed", "Cancelled", "Failed"}

PROFILE == <<"Profile">>

\* job[u]: op = the callback in work ("add", "inc", "dec", "del", "show"), pid / qty
\* = its product and quantity, stage = the get_products call in flight ("check" in
\* add_cart, "alert" in alert_admin, "cat" / "kb" / "show" in the router), probed = the marker
\* that call read, tries = attempts of alert_admin used up, n = callbacks taken
NoJob == [op |-> "none", pid |-> "", qty |-> 0, stage |-> "", probed |-> 0, tries |-> 0, n |-> 0,
          c0 |-> <<>>, ab |-> 0]

\* no retry_gspread call: pc = where the call stands ("off", "call" before an
\* invocation, "sleep", "done"), retries / delay = its arguments, attempt = the
\* loop variable, outs = how the invocations made so far ended, slept = the
\* sleeps made so far, warns = log.warning calls made so far, out = how the call
\* itself ended
NoRetry == [pc |-> "off", retries |-> 0, delay |-> 0, attempt |-> 0, outs |-> <<>>,
            slept |-> <<>>, warns |-> 0, out |-> "none"]

\* the webhook requests the server can hold at once
MaxReqs == 2
Reqs == 1..MaxReqs

\* no request: st = where the request stands ("none", "json" while the body is
\* read, then the await its handler is at, "done"), u / msg = the sender and the
\* text of its update, h = the handler the update was given to, cart = the cart
\* list the handler holds, rec = the stock update_stock read, out = the state
\* the handler is going to return
NoReq == [st |-> "none", u |-> "", msg |-> <<>>, h |-> "none", cart |-> <<>>,
          rec |-> 0, out |-> ""]
NoReqs == [r \in Reqs |-> NoReq]

\* get_products calls one session makes in the fine-grained specification
MaxGets == 2

\* no call: st = the await the call stands at ("off", "u_read", "u_write",
\* "g_probe", "g_load", "g_assign", "done"), kind = "get" (a handler's
\* get_products call) or "commit" (update_stock over a cart of one line), n =
\* calls made so far, qty = the quantity of the cart line, rec = the stock
\* update_stock read, new = the new_stock it computed, wrote = update_cell
\* returned, cur = the marker probed, snap = the product map load_products read,
\* ret = the stock map the call returned, ok = how it ended, late = the call
\* began after a commit had returned True, re = the call reloaded, fails = for
\* a call that a store call ended by raising: how many attempts in a row the
\* store would have failed, had they been made
NoGet == [st |-> "off", kind |-> "none", n |-> 0, qty |-> 0, rec |-> 0, new |-> 0,
          wrote |-> FALSE, cur |-> 0, snap |-> [p \in Products |-> 0],
          ret |-> [p \in Products |-> 0], ok |-> FALSE, late |-> FALSE, re |-> FALSE,
          fails |-> 0]
NoGets == [u \in Users |-> NoGet]

\* no load_products call: rows = the records get_all_records returned, st =
\* "off", "read" (the records are there) or "done", out = "none", "map" (a product map
\* was returned) or "exit" (SystemExit), products = the map: id -> the row
\* that was stored under it
\* no send_cart_reminder run: st = "off", "read" (get_all_records is awaited),
\* "send" (the loop stands at record i), "clear", "done"; records = what it
\* read; sent = the reminders delivered, in order, each with the user and the
\* cart it showed; out = "cleared" or "error" (the except branch)
NoSweep == [st |-> "off", records |-> <<>>, i |-> 0, sent |-> <<>>, out |-> "none"]

\* no update_stock run over the rows of the sheet: sheet = the Products sheet
\* as rows (id, stock), cart = the cart the run was given, st = "off", "read",
\* "write" (update_cell for row ri is awaited, for cart line li, with value
\* new), "cache" (get_products is awaited), "done"; records = what the run
\* read; writes = the update_cell calls that returned, each with its line, row
\* and value; ok = what the run returned
NoRun == [sheet |-> <<>>, cart |-> <<>>, st |-> "off", records |-> <<>>, li |-> 0, ri |-> 0,
          new |-> 0, writes |-> <<>>, ok |-> FALSE]

NoLoad == [rows |-> <<>>, st |-> "off", out |-> "none", products |-> <<>>]

\* no status poller: sheet = the Orders sheet as the poller reads it, one entry
\* per data row with its user, status and notified columns (entry k is row
\* k + 1 of the sheet, row 1 being the header); mark = _last_checked_row;
\* st = "off", "idle" (between two runs), "find" (findall "preparing" is
\* awaited), "row" (row_values of cell i is awaited), "send" (send_message),
\* "update" (update_cell); lastc, shipped, cells, i, status = the locals of
\* the run; sent = the notifications delivered, each with its row and the
\* status it announced; failed = a run ended in the except branch
NoPoll == [sheet |-> <<>>, mark |-> 1, st |-> "off", lastc |-> 1, shipped |-> <<>>,
           cells |-> <<>>, i |-> 0, status |-> "none", sent |-> {}, failed |-> FALSE]

\* a cache loaded from the sheet as it is at the instant t
Loaded(s, v, t) == [loaded |-> TRUE, data |-> s, version |-> v, ts |-> t + CACHE_TTL]

NoCache == [loaded |-> FALSE, data |-> [p \in Products |-> 0], version |-> 0, ts |-> 0]

\* the AbandonedCarts row add_cart appended for the cart of u (main.py:719-728)
AbandonedOf(cs, u) == IF cs[u] = <<>> THEN <<>> ELSE << [user |-> u, cart |-> cs[u]] >>

\* The sessions in `on` talk to the bot, over carts drawn from cartSet; the other
\* users never send an update (pc = "off").
InitOf(on, stocks, cartSet, tables) ==
    /\ stock \in stocks
    /\ stock0 = stock
    /\ version = 0
    /\ discounts \in tables
    /\ orders = <<>>
    /\ now = Now
    /\ cache = Loaded(stock, version, now)
    /\ fsm = [u \in Users |-> "NoCheckout"]
    /\ cart0 \in [Users -> cartSet]
    /\ \A u \in Users \ on : cart0[u] = <<>>
    /\ data = [u \in Users |-> [Cleared EXCEPT !.cart = cart0[u]]]
    /\ abandoned = AbandonedOf(cart0, "u1") \o AbandonedOf(cart0, "u2")
    /\ pc = [u \in Users |-> IF u \in on THEN "idle" ELSE "off"]
    /\ loc = [u \in Users |-> NoLoc]
    /\ hist = [u \in Users |-> <<>>]
    /\ raced = FALSE
    /\ nextOid = 0
    /\ runs = [u \in Users |-> 0]
    /\ last = [u \in Users |-> NoLast]
    /\ job = [u \in Users |-> NoJob]
    /\ ops = [u \in Users |-> <<>>]
    /\ gets = <<>>
    /\ rt = NoRetry
    /\ reqs = NoReqs
    /\ gp = NoGets
    /\ ld = NoLoad
    /\ sw = NoSweep
    /\ pr = NoRun
    /\ po = NoPoll

\* one session, every cart and every discount table
Init == InitOf({"u1"}, [Products -> 0..MaxStock], InitCarts \cup {<<>>}, DiscountTables)

\* two sessions checking out one-line carts of the same product
RaceStocks == { [p \in Products |-> IF p = "p1" THEN s ELSE 0] : s \in 0..MaxStock }
RaceCarts == { <<Line("p1", q)>> : q \in 1..MaxQty } \cup {<<>>}
InitRace ==
    /\ InitOf(Users, RaceStocks, RaceCarts, {OneDiscount(DRow(10, TRUE, Now + 1, TRUE))})
    /\ \A u \in Users : cart0[u] # <<>>

\* ------------------------------------------------------------- dispatch
\* ConversationHandler.check_update over the registration of main.py:1330-1341:
\* the handlers of the current state are tried first, the fallbacks only when
\* none of them accepts the message.
\*   ASK_NAME..ASK_POSTAL: MessageHandler(filters.TEXT & ~filters.COMMAND, ...)
\*   ASK_DISCOUNT, ASK_NOTES: MessageHandler(filters.TEXT | filters.COMMAND, ...)
\*   fallbacks: CommandHandler("cancel", cancel_order)
StateHandler(st, msg) ==
    CASE st = "AwaitingName" /\ ~IsCommand(msg) -> "ask_phone"
      [] st = "AwaitingPhone" /\ ~IsCommand(msg) -> "ask_address"
      [] st = "AwaitingAddress" /\ ~IsCommand(msg) -> "ask_postal"
      [] st = "AwaitingPostal" /\ ~IsCommand(msg) -> "ask_discount"
      [] st = "AwaitingDiscount" -> "ask_notes"
      [] st = "AwaitingNotes" -> "confirm_order"
      [] OTHER -> "none"

HandlerFor(st, msg) ==
    IF st \notin Intermediate THEN "none"
    ELSE IF StateHandler(st, msg) # "none" THEN StateHandler(st, msg)
    ELSE IF msg = CANCEL THEN "cancel_order"
    ELSE "none"

\* ------------------------------------------------------------- user_data
Put(d, k, v) ==
    CASE k = "name" -> [d EXCEPT !.keys = @ \cup {k}, !.name = v]
      [] k = "phone" -> [d EXCEPT !.keys = @ \cup {k}, !.phone = v]
      [] k = "address" -> [d EXCEPT !.keys = @ \cup {k}, !.address = v]
      [] k = "postal" -> [d EXCEPT !.keys = @ \cup {k}, !.postal = v]
      [] k = "discount_code" -> [d EXCEPT !.keys = @ \cup {k}, !.discount_code = v]
      [] k = "notes" -> [d EXCEPT !.keys = @ \cup {k}, !.notes = v]

\* ctx.user_data.clear(): every key goes, the cart included
Clear(d) == Cleared

\* variables no handler of the checkout writes
fixed == <<now, stock0, cart0, discounts, version, job, ops, gets, rt, reqs, gp, ld, sw, pr, po>>
\* what the steps of a confirm_order run leave alone unless they say otherwise
sheets == <<stock, orders, abandoned, cache>>
\* what the message handlers before confirm_order leave alone
quiet == <<pc, loc, hist, raced, nextOid, runs, stock, orders, abandoned, cache, fixed>>

\* ------------------------------------------------------------- router
\* router, order_perugia / order_italy (main.py:1566-1576)
SelectDest(u) ==
    /\ pc[u] = "idle"
    /\ \E d \in Dests :
          data' = [data EXCEPT ![u].dest = d, ![u].keys = @ \cup {"dest"}]
    /\ UNCHANGED <<fsm, last, quiet>>

\* a guard that lets every session in
HasDest_Always(d) == TRUE

\* main.py:798  ctx.user_data.get("dest")
HasDest(d) == "dest" \in d.keys

\* what start_order stores before it replies (main.py:807-809)
Started(d) == [Put(d, "name", PROFILE) EXCEPT !.keys = @ \cup {"ident"}]

\* start_order, the entry point of the conversation (main.py:794-816), taken only
\* while the user has no conversation.  Without a destination it re-renders the
\* cart and returns None: no transition (a render that raises ends in the
\* catch-all, whose END leaves a user without a conversation without one).  A
\* reply that raises ends in the catch-all, which returns END and clears nothing.
start_order(u) ==
    /\ pc[u] = "idle"
    /\ fsm[u] \notin Intermediate \cup {"Confirming"}
    /\ \/ /\ ~HasDest(data[u])
          /\ UNCHANGED <<fsm, data, runs, loc, hist, last>>
       \/ /\ HasDest(data[u])
          /\ runs[u] < MaxCheckouts
          /\ runs' = [runs EXCEPT ![u] = @ + 1]
          /\ data' = [data EXCEPT ![u] = Started(@)]
          /\ loc' = [loc EXCEPT ![u] = NoLoc]
          /\ hist' = [hist EXCEPT ![u] = <<>>]
          /\ \/ /\ fsm' = [fsm EXCEPT ![u] = "AwaitingName"]
                /\ last' = [last EXCEPT ![u] = NoLast]
             \/ /\ fsm' = [fsm EXCEPT ![u] = "Failed"]
                /\ last' = [last EXCEPT ![u] = [NoLast EXCEPT !.raised = "reply"]]
    /\ UNCHANGED <<pc, raced, nextOid, sheets, fixed>>

\* router, "checkout" pressed while the conversation is under way (main.py:1578-1579):
\* the entry point does not take it, the router calls start_order and drops what
\* it returns, so only the stored name changes
RouterCheckout(u) ==
    /\ pc[u] = "idle"
    /\ fsm[u] \in Intermediate
    /\ HasDest(data[u])
    /\ data' = [data EXCEPT ![u] = Started(@)]
    /\ UNCHANGED <<fsm, last, quiet>>

\* ------------------------------------------------------------- checkout steps
\* ask_phone .. ask_discount (main.py:818-860): store the stripped text under
\* key k, reply, return the next state; a reply that raises ends in the
\* catch-all, which returns END and clears nothing.
AskStep(u, h, k, next) ==
    /\ pc[u] = "idle"
    /\ \E msg \in FreeTexts :
          /\ HandlerFor(fsm[u], msg) = h
          /\ data' = [data EXCEPT ![u] = Put(@, k, Strip(msg))]
          /\ \/ /\ fsm' = [fsm EXCEPT ![u] = next]
                /\ last' = [last EXCEPT ![u] = Took(msg, fsm[u], <<>>, "no")]
             \/ /\ fsm' = [fsm EXCEPT ![u] = "Failed"]
                /\ last' = [last EXCEPT ![u] = Took(msg, fsm[u], <<>>, "reply")]
    /\ UNCHANGED quiet

ask_phone(u) == AskStep(u, "ask_phone", "name", "AwaitingPhone")

ask_address(u) == AskStep(u, "ask_address", "phone", "AwaitingAddress")

ask_postal(u) == AskStep(u, "ask_postal", "address", "AwaitingPostal")

ask_discount(u) == AskStep(u, "ask_discount", "postal", "AwaitingDiscount")

\* load_discounts (main.py:464-491): the sheet as read now, or {} on any error
load_discounts == {discounts, NoDiscounts}

\* the validity test of ask_notes (main.py:871-873); evaluated left to right, so
\* the date is parsed only for a code that exists and is active
CodeKnown(tbl, code) == code \in DOMAIN tbl /\ tbl[code].is_active

CodeValid(tbl, code) == CodeKnown(tbl, code) /\ tbl[code].at >= now

\* ask_notes (main.py:862-885)
ask_notes(u) ==
    /\ pc[u] = "idle"
    /\ \E msg \in DiscountTexts :
          /\ HandlerFor(fsm[u], msg) = "ask_notes"
          /\ IF msg = SKIP
             THEN /\ data' = [data EXCEPT ![u] = Put(@, "discount_code", <<>>)]
                  /\ \/ /\ fsm' = [fsm EXCEPT ![u] = "AwaitingNotes"]
                        /\ last' = [last EXCEPT ![u] = Took(msg, fsm[u], <<>>, "no")]
                     \/ /\ fsm' = [fsm EXCEPT ![u] = "Failed"]
                        /\ last' = [last EXCEPT ![u] = Took(msg, fsm[u], <<>>, "reply")]
             ELSE \E tbl \in load_discounts :
                    LET code == Strip(msg) IN
                    IF CodeKnown(tbl, code) /\ ~tbl[code].date_ok
                    THEN \* strptime raises ValueError: catch-all
                         /\ fsm' = [fsm EXCEPT ![u] = "Failed"]
                         /\ last' = [last EXCEPT ![u] = Took(msg, fsm[u], tbl, "date")]
                         /\ UNCHANGED data
                    ELSE IF CodeValid(tbl, code)
                    THEN /\ data' = [data EXCEPT ![u] = Put(@, "discount_code", code)]
                         /\ \/ /\ fsm' = [fsm EXCEPT ![u] = "AwaitingNotes"]
                               /\ last' = [last EXCEPT ![u] = Took(msg, fsm[u], tbl, "no")]
                            \/ /\ fsm' = [fsm EXCEPT ![u] = "Failed"]
                               /\ last' = [last EXCEPT ![u] = Took(msg, fsm[u], tbl, "reply")]
                    ELSE /\ UNCHANGED data
                         /\ \/ /\ fsm' = [fsm EXCEPT ![u] = "AwaitingDiscount"]
                               /\ last' = [last EXCEPT ![u] = Took(msg, fsm[u], tbl, "no")]
                            \/ /\ fsm' = [fsm EXCEPT ![u] = "Failed"]
                               /\ last' = [last EXCEPT ![u] = Took(msg, fsm[u], tbl, "reply")]
    /\ UNCHANGED quiet

\* cancel_order (main.py:997-1006): clear, reply, return END (the catch-all
\* returns END as well, after the clear)
cancel_order(u) ==
    /\ pc[u] = "idle"
    /\ HandlerFor(fsm[u], CANCEL) = "cancel_order"
    /\ data' = [data EXCEPT ![u] = Clear(@)]
    /\ fsm' = [fsm EXCEPT ![u] = "Cancelled"]
    /\ last' = [last EXCEPT ![u] = Took(CANCEL, fsm[u], <<>>, "no")]
    /\ UNCHANGED quiet

\* ------------------------------------------------------------- confirm_order
\* rows of the Orders sheet that belong to user u
RowsBy(u) == { i \in 1..Len(orders) : orders[i].user = u }

\* an end that returns END with ctx.user_data left as it is
End_NoClear(u, l, h, out) ==
    /\ fsm' = [fsm EXCEPT ![u] = out]
    /\ pc' = [pc EXCEPT ![u] = "idle"]
    /\ loc' = [loc EXCEPT ![u] = l]
    /\ hist' = [hist EXCEPT ![u] = h]
    /\ UNCHANGED data

\* How a confirm_order run ends: reply, ctx.user_data.clear(), return END
\* (main.py:897-899, 902-904, 951-953, 989-990, 993-995).
End(u, l, h, out) ==
    /\ fsm' = [fsm EXCEPT ![u] = out]
    /\ data' = [data EXCEPT ![u] = Clear(@)]
    /\ pc' = [pc EXCEPT ![u] = "idle"]
    /\ loc' = [loc EXCEPT ![u] = l]
    /\ hist' = [hist EXCEPT ![u] = h \o <<"session_clear">>]

\* the catch-all of confirm_order (main.py:991-995)
Abort(u, l, h) == End(u, [l EXCEPT !.fault = TRUE], h, "Failed")

\* a rejection path of confirm_order (main.py:896-899, 901-904)
Reject(u, l, h) == End(u, l, h, "Cancelled")

\* a failed commit that returns END without ctx.user_data.clear()
CommitFail_NoClear(u, l, h) ==
    /\ fsm' = [fsm EXCEPT ![u] = "Cancelled"]
    /\ pc' = [pc EXCEPT ![u] = "idle"]
    /\ loc' = [loc EXCEPT ![u] = [l EXCEPT !.commit = "failed"]]
    /\ hist' = [hist EXCEPT ![u] = h \o <<"commit_fail">>]
    /\ UNCHANGED <<data, nextOid>>

\* update_stock returned False (main.py:901-904)
CommitFail(u, l, h) ==
    /\ Reject(u, [l EXCEPT !.commit = "failed"], h \o <<"commit_fail">>)
    /\ UNCHANGED nextOid

\* update_stock returned True (main.py:906-916): order id, total; then either the
\* discount re-read or the first append is awaited
CommitOk(u, l, h) ==
    LET d == data[u]
        l2 == [l EXCEPT !.commit = "ok", !.oid = nextOid + 1, !.ts = now,
                        !.total = cart_total(d.cart), !.discount = 0, !.idx = 1]
    IN  /\ nextOid' = nextOid + 1
        /\ loc' = [loc EXCEPT ![u] = l2]
        /\ IF d.discount_code # <<>>
           THEN /\ pc' = [pc EXCEPT ![u] = "c_discount"]
                /\ hist' = [hist EXCEPT ![u] = h \o <<"commit_ok">>]
           ELSE /\ pc' = [pc EXCEPT ![u] = "c_append"]
                /\ hist' = [hist EXCEPT ![u] = h \o <<"commit_ok", "total">>]
        /\ UNCHANGED <<fsm, data>>

\* a new stock that forgets the quantity
NewStock_Unchanged(recs, it) == recs[it.id]

\* main.py:770  new_stock = int(row["stock"]) - qty
NewStock(recs, it) == recs[it.id] - it.qty

\* a loop that writes every line without the test of the new stock
Continue_NoCheck(u, i, l, h) ==
    LET cart == data[u].cart IN
    IF i > Len(cart) THEN CommitOk(u, l, h)
    ELSE /\ pc' = [pc EXCEPT ![u] = "us_write"]
         /\ loc' = [loc EXCEPT ![u] = [l EXCEPT !.idx = i]]
         /\ hist' = [hist EXCEPT ![u] = h]
         /\ UNCHANGED <<fsm, data, nextOid>>

\* the loop of update_stock (main.py:764-780) arriving at line i, run up to its
\* next await: past the last line it returns True; a line whose new stock is
\* negative returns False at once; otherwise update_cell is awaited
Continue(u, i, l, h) ==
    LET cart == data[u].cart IN
    IF i > Len(cart) THEN CommitOk(u, l, h)
    ELSE IF NewStock(l.records, cart[i]) < 0 THEN CommitFail(u, l, h)
    ELSE /\ pc' = [pc EXCEPT ![u] = "us_write"]
         /\ loc' = [loc EXCEPT ![u] = [l EXCEPT !.idx = i]]
         /\ hist' = [hist EXCEPT ![u] = h]
         /\ UNCHANGED <<fsm, data, nextOid>>

\* a store call of update_stock raised (main.py:781-788): an APIError notifies the
\* admin, any other error does not; both return False
StockFault(u, l, h) ==
    LET l2 == [l EXCEPT !.fault = TRUE] IN
    \/ CommitFail(u, l2, h \o <<"admin_stock_error">>)
    \/ CommitFail(u, l2, h)

\* confirm_order up to its first await (main.py:887-901)
confirm_order(u) ==
    /\ pc[u] = "idle"
    /\ \E msg \in NotesTexts :
          /\ HandlerFor(fsm[u], msg) = "confirm_order"
          /\ last' = [last EXCEPT ![u] = Took(msg, fsm[u], <<>>, "no")]
          /\ LET d == Put(data[u], "notes", IF msg = SKIP THEN <<>> ELSE Strip(msg))
                 l == [NoLoc EXCEPT !.lines = Len(d.cart), !.mark = Cardinality(RowsBy(u))]
                 h == <<"empty_check">>
             IN  IF d.cart = <<>>
                 THEN Reject(u, l, h)
                 ELSE /\ fsm' = [fsm EXCEPT ![u] = "Confirming"]
                      /\ data' = [data EXCEPT ![u] = d]
                      /\ pc' = [pc EXCEPT ![u] = "us_read"]
                      /\ loc' = [loc EXCEPT ![u] = l]
                      /\ hist' = [hist EXCEPT ![u] = h]
    /\ UNCHANGED <<nextOid, raced, runs, sheets, fixed>>

\* the awaits of update_stock that follow its read
InCommit == {"us_write", "us_probe", "us_reload"}

\* update_stock: records = products_ws.get_all_records() (main.py:762)
UsRead(u) ==
    /\ pc[u] = "us_read"
    /\ \/ /\ Continue(u, 1, [loc[u] EXCEPT !.records = stock], hist[u])
          /\ raced' = (raced \/ \E v \in Users \ {u} : pc[v] \in InCommit)
       \/ /\ StockFault(u, loc[u], hist[u])
          /\ UNCHANGED raced
    /\ UNCHANGED <<last, runs, sheets, fixed>>

\* update_stock: products_ws.update_cell(idx, 10, new_stock) (main.py:776)
UsWrite(u) ==
    /\ pc[u] = "us_write"
    /\ LET it == data[u].cart[loc[u].idx] IN
       \/ /\ stock' = [stock EXCEPT ![it.id] = NewStock(loc[u].records, it)]
          /\ pc' = [pc EXCEPT ![u] = "us_probe"]
          /\ loc' = [loc EXCEPT ![u].wrote = @ \cup {it.id}]
          /\ UNCHANGED <<fsm, data, hist, nextOid>>
       \/ /\ StockFault(u, loc[u], hist[u])
          /\ UNCHANGED stock
    /\ UNCHANGED <<orders, abandoned, cache, raced, last, runs, fixed>>

\* a test that asks for a load at every call
NeedReload_Always(c, cur) == TRUE

\* get_products (main.py:501-504): reload when nothing is cached, the marker
\* differs or the expiry has passed
NeedReload(c, cur) == ~c.loaded \/ c.version # cur \/ now > c.ts

\* main.py:777  (await get_products())[pid]["stock"] = new_stock
SetCached(c, it, recs) == [c EXCEPT !.data[it.id] = NewStock(recs, it)]

\* update_stock: get_products probes cell L1 (main.py:497-498); with nothing to
\* reload it returns the cached map, whose line is overwritten
UsProbe(u) ==
    /\ pc[u] = "us_probe"
    /\ LET it == data[u].cart[loc[u].idx] IN
       \/ /\ NeedReload(cache, version)
          /\ pc' = [pc EXCEPT ![u] = "us_reload"]
          /\ loc' = [loc EXCEPT ![u].cur = version]
          /\ UNCHANGED <<fsm, data, hist, nextOid, cache>>
       \/ /\ ~NeedReload(cache, version)
          /\ cache' = SetCached(cache, it, loc[u].records)
          /\ Continue(u, loc[u].idx + 1, [loc[u] EXCEPT !.cwrote = @ \cup {it.id}], hist[u])
       \/ /\ StockFault(u, loc[u], hist[u])
          /\ UNCHANGED cache
    /\ UNCHANGED <<stock, orders, abandoned, raced, last, runs, fixed>>

\* SystemExit leaves load_products (main.py:460-462) and is no Exception: no
\* handler catches it, the process ends and restarts with an empty memory
Crash ==
    /\ fsm' = [u \in Users |-> "NoCheckout"]
    /\ data' = [u \in Users |-> Cleared]
    /\ pc' = [u \in Users |-> IF pc[u] = "off" THEN "off" ELSE "idle"]
    /\ loc' = [u \in Users |-> NoLoc]
    /\ hist' = [u \in Users |-> <<>>]
    /\ last' = [u \in Users |-> NoLast]
    /\ cache' = NoCache

\* update_stock: get_products reloads (main.py:506-508), then the line is
\* overwritten in the fresh map
UsReload(u) ==
    /\ pc[u] = "us_reload"
    /\ LET it == data[u].cart[loc[u].idx] IN
       \/ /\ cache' = SetCached(Loaded(stock, loc[u].cur, now), it, loc[u].records)
          /\ Continue(u, loc[u].idx + 1, [loc[u] EXCEPT !.cwrote = @ \cup {it.id}], hist[u])
          /\ UNCHANGED last
       \/ /\ Crash
          /\ UNCHANGED nextOid
    /\ UNCHANGED <<stock, orders, abandoned, raced, runs, fixed>>

\* the percentage divided as an integer before it is applied
DiscountOf_Floor(total, pct) == total * (pct \div 100)

\* main.py:913  discount = total * (discount_percent / 100)
\* (exact here: every price is a multiple of 10 and every percent too)
DiscountOf(total, pct) == (total * pct) \div 100

\* confirm_order re-reads the discounts for a stored code (main.py:911-914); a
\* code missing from what was read raises KeyError: the catch-all
CDiscount(u) ==
    /\ pc[u] = "c_discount"
    /\ \E tbl \in load_discounts :
          LET code == data[u].discount_code IN
          IF code \in DOMAIN tbl
          THEN LET amt == DiscountOf(loc[u].total, tbl[code].discount_percent) IN
               /\ loc' = [loc EXCEPT ![u].discount = amt, ![u].total = @ - amt]
               /\ pc' = [pc EXCEPT ![u] = "c_append"]
               /\ hist' = [hist EXCEPT ![u] = @ \o <<"total">>]
               /\ UNCHANGED <<fsm, data>>
          ELSE Abort(u, loc[u], hist[u])
    /\ UNCHANGED <<nextOid, raced, last, runs, sheets, fixed>>

\* a row whose subtotal is the unit price
OrderRow_UnitPrice(u, l, d, it) ==
    [ts |-> l.ts, order_id |-> l.oid, user |-> u, dest |-> d.dest, product_id |-> it.id,
     name |-> it.fa, qty |-> it.qty, unit_price |-> it.price, subtotal |-> it.price,
     notes |-> d.notes, discount_code |-> d.discount_code, discount |-> l.discount,
     status |-> "preparing", notified |-> FALSE]

\* the row confirm_order appends for one cart line (main.py:923-929)
OrderRow(u, l, d, it) ==
    [ts |-> l.ts, order_id |-> l.oid, user |-> u, dest |-> d.dest, product_id |-> it.id,
     name |-> it.fa, qty |-> it.qty, unit_price |-> it.price, subtotal |-> it.qty * it.price,
     notes |-> d.notes, discount_code |-> d.discount_code, discount |-> l.discount,
     status |-> "preparing", notified |-> FALSE]

\* the storage-error path of confirm_order (main.py:949-953)
StorageError(u, l, h) ==
    End(u, [l EXCEPT !.fault = TRUE], h \o <<"storage_error">>, "Failed")

\* a loop that stops after its first line
LastLine_First(u) == TRUE

\* main.py:920  for it in cart: the line in work is the last one
LastLine(u) == loc[u].idx = Len(data[u].cart)

\* confirm_order: orders_ws.append_row for the line in work (main.py:920-930)
CAppend(u) ==
    /\ pc[u] = "c_append"
    /\ LET it == data[u].cart[loc[u].idx] IN
       \/ /\ orders' = Append(orders, OrderRow(u, loc[u], data[u], it))
          /\ hist' = [hist EXCEPT ![u] = @ \o <<"row">>]
          /\ IF LastLine(u)
             THEN pc' = [pc EXCEPT ![u] = "c_reply"] /\ UNCHANGED loc
             ELSE loc' = [loc EXCEPT ![u].idx = @ + 1] /\ UNCHANGED pc
          /\ UNCHANGED <<fsm, data>>
       \/ /\ StorageError(u, loc[u], hist[u])
          /\ UNCHANGED orders
    /\ UNCHANGED <<nextOid, raced, last, runs, stock, abandoned, cache, fixed>>

\* confirm_order: the invoice is built and sent to the user (main.py:935-948);
\* an error here is caught by the same handler as a failed append
CReply(u) ==
    /\ pc[u] = "c_reply"
    /\ \/ /\ pc' = [pc EXCEPT ![u] = "c_promo"]
          /\ hist' = [hist EXCEPT ![u] = @ \o <<"user_confirm">>]
          /\ UNCHANGED <<fsm, data, loc>>
       \/ StorageError(u, loc[u], hist[u])
    /\ UNCHANGED <<nextOid, raced, last, runs, sheets, fixed>>

\* confirm_order: the promotional message (main.py:956-957), outside the inner try
CPromo(u) ==
    /\ pc[u] = "c_promo"
    /\ \/ /\ pc' = [pc EXCEPT ![u] = "c_admin"]
          /\ UNCHANGED <<fsm, data, loc, hist>>
       \/ Abort(u, loc[u], hist[u])
    /\ UNCHANGED <<nextOid, raced, last, runs, sheets, fixed>>

\* confirm_order: the new-order notification (main.py:960-981); a send that raises
\* is logged and dropped
CAdmin(u) ==
    /\ pc[u] = "c_admin"
    /\ pc' = [pc EXCEPT ![u] = "c_abclear"]
    /\ \/ hist' = [hist EXCEPT ![u] = @ \o <<"admin_new_order">>]
       \/ UNCHANGED hist
    /\ UNCHANGED <<fsm, data, loc, nextOid, raced, last, runs, sheets, fixed>>

\* confirm_order: abandoned_cart_ws.clear() (main.py:984-987, an error is logged
\* and dropped), then the session is cleared (main.py:989-990)
CAbClear(u) ==
    /\ pc[u] = "c_abclear"
    /\ \/ /\ abandoned' = <<>>
          /\ End(u, loc[u], hist[u] \o <<"ab_clear">>, "Completed")
       \/ /\ UNCHANGED abandoned
          /\ End(u, loc[u], hist[u], "Completed")
    /\ UNCHANGED <<nextOid, raced, last, runs, stock, orders, cache, fixed>>

\* ------------------------------------------------------------- environment
\* the shop edits cell L1 of the Products sheet
BumpVersion ==
    /\ version < MaxVersion
    /\ version' = version + 1
    /\ UNCHANGED <<now, stock0, cart0, discounts, sheets,
                   fsm, data, pc, loc, hist, last, raced, nextOid, runs, job, ops, gets, rt, reqs, gp, ld, sw, pr, po>>

Checkout(u) ==
    \/ SelectDest(u)
    \/ start_order(u)
    \/ ask_phone(u)
    \/ ask_address(u)
    \/ ask_postal(u)
    \/ ask_discount(u)
    \/ ask_notes(u)
    \/ cancel_order(u)
    \/ confirm_order(u)
    \/ UsRead(u)
    \/ UsWrite(u)
    \/ UsProbe(u)
    \/ CDiscount(u)
    \/ CAppend(u)
    \/ CReply(u)
    \/ CPromo(u)
    \/ CAdmin(u)
    \/ CAbClear(u)

Next ==
    \/ BumpVersion
    \/ \E u \in Users : Checkout(u) \/ UsReload(u) \/ RouterCheckout(u)

\* two sessions while the version marker stays as it is
NextRace == \E u \in Users : Checkout(u)

Spec == Init /\ [][Next]_vars

SpecRace == InitRace /\ [][NextRace]_vars

\* the Discounts sheet as the shop may leave it: the code active and in date,
\* with a percentage above 100 (load_discounts takes any number, main.py:481),
\* switched off, out of date, or its row deleted
EditedTables ==
    { OneDiscount(DRow(10, TRUE, Now + 1, TRUE)),
      OneDiscount(DRow(150, TRUE, Now + 1, TRUE)),
      OneDiscount(DRow(10, TRUE, Now + 1, FALSE)),
      OneDiscount(DRow(10, TRUE, Now - 1, TRUE)),
      NoDiscounts }

\* the shop edits the Discounts sheet (the bot reads it afresh in
\* load_discounts, main.py:466-468)
EditDiscounts ==
    /\ discounts' \in EditedTables \ {discounts}
    /\ UNCHANGED <<stock, version, orders, abandoned, cache, now, fsm, data, pc, loc, hist,
                   stock0, raced, nextOid, runs, last, cart0, job, ops, gets, rt, reqs, gp, ld, sw, pr, po>>

\* one session with a cart of p1 and stock for it, the code on the sheet
InitDisc ==
    InitOf({"u1"}, {[p \in Products |-> MaxStock]},
           {<<>>} \cup {<<Line("p1", q)>> : q \in 1..MaxQty}, EditedTables)

\* a checkout while the shop edits the Discounts sheet
NextDisc ==
    \/ EditDiscounts
    \/ \E u \in Users : Checkout(u)

SpecDisc == InitDisc /\ [][NextDisc]_vars

\* ------------------------------------------------------------- cart and catalog
MaxAdd == 2
MaxCartStock == 4
MaxOps == 3
MaxCalls == 3

\* main.py:344  LOW_STOCK_TH = int(os.getenv("LOW_STOCK_THRESHOLD", "3"))
LOW_STOCK_TH == 3

\* main.py:569  for _ in range(3)
ALERT_TRIES == 3

\* the ids a callback can carry: "px" is an id no row of the Products sheet has
Pids == Products \cup {"px"}

\* the instants the clock is read at: steps of half a TTL, so that a call can
\* fall before, on and after the expiry a reload has set
Delays == {CACHE_TTL \div 2}
Horizon == Now + CACHE_TTL + CACHE_TTL \div 2

\* main.py:700  next((i for i in cart if i["id"] == pid), None), as a position
Find(c, pid) ==
    IF \E i \in 1..Len(c) : c[i].id = pid
    THEN CHOOSE i \in 1..Len(c) : c[i].id = pid /\ \A j \in 1..(i - 1) : c[j].id # pid
    ELSE 0

\* the quantity already in the cart not counted
QtyOf_Zero(c, pid) == 0

\* main.py:701  cur_qty = cur["qty"] if cur else 0
QtyOf(c, pid) == IF Find(c, pid) = 0 THEN 0 ELSE c[Find(c, pid)].qty

\* list.remove(item)
RemoveAt(c, i) == SubSeq(c, 1, i - 1) \o SubSeq(c, i + 1, Len(c))

\* add_cart without the comparison of main.py:703
AddLine_NoCheck(c, prods, pid, qty) ==
    IF pid \notin DOMAIN prods THEN [ok |-> FALSE, cart |-> c]
    ELSE IF Find(c, pid) # 0
    THEN [ok |-> TRUE, cart |-> [c EXCEPT ![Find(c, pid)].qty = @ + qty]]
    ELSE [ok |-> TRUE, cart |-> Append(c, Line(pid, qty))]

\* add_cart putting the quantity asked for in place of the one the line holds
AddLine_Replace(c, prods, pid, qty) ==
    IF pid \notin DOMAIN prods THEN [ok |-> FALSE, cart |-> c]
    ELSE IF prods[pid] < QtyOf(c, pid) + qty THEN [ok |-> FALSE, cart |-> c]
    ELSE IF Find(c, pid) # 0
    THEN [ok |-> TRUE, cart |-> [c EXCEPT ![Find(c, pid)].qty = qty]]
    ELSE [ok |-> TRUE, cart |-> Append(c, Line(pid, qty))]

\* add_cart from the map get_products returned to its first await after it
\* (main.py:694-715; handlers.py:100-113 is the same code): absent id and short stock return False before the cart is
\* touched; otherwise the line grows in place or a new line goes to the end
AddLine(c, prods, pid, qty) ==
    IF pid \notin DOMAIN prods THEN [ok |-> FALSE, cart |-> c]
    ELSE IF prods[pid] < QtyOf(c, pid) + qty THEN [ok |-> FALSE, cart |-> c]
    ELSE IF Find(c, pid) # 0
    THEN [ok |-> TRUE, cart |-> [c EXCEPT ![Find(c, pid)].qty = @ + qty]]
    ELSE [ok |-> TRUE, cart |-> Append(c, Line(pid, qty))]

\* a decrement with no floor
DecLine_NoFloor(c, pid) == [c EXCEPT ![Find(c, pid)].qty = @ - 1]

\* router, dec_ (main.py:1540-1541): item["qty"] = max(1, item["qty"] - 1)
DecLine(c, pid) ==
    [c EXCEPT ![Find(c, pid)].qty = IF @ - 1 < 1 THEN 1 ELSE @ - 1]

\* decrement_item (handlers.py:150-158): one less, the line removed at 0
decrement_item(c, pid) ==
    LET i == Find(c, pid) IN
    IF i = 0 THEN c
    ELSE IF c[i].qty - 1 <= 0 THEN RemoveAt(c, i)
    ELSE [c EXCEPT ![i].qty = @ - 1]

\* router, del_ (main.py:1542-1543): cart.remove(item)
DelLine(c, pid) == RemoveAt(c, Find(c, pid))

\* the last two entries of a log
Last2(q) == IF Len(q) <= 2 THEN q ELSE SubSeq(q, Len(q) - 1, Len(q))

\* an operation on the cart of a session as it was decided: known / seen = whether
\* the map had the product and the stock it held for it
OpRec(op, pid, qty, ok, before, after, prods) ==
    [op |-> op, pid |-> pid, qty |-> qty, ok |-> ok, before |-> before, after |-> after,
     known |-> pid \in DOMAIN prods, seen |-> IF pid \in DOMAIN prods THEN prods[pid] ELSE 0,
     err |-> FALSE]

Note(u, r) == ops' = [ops EXCEPT ![u] = Last2(@ \o <<r>>)]

\* a get_products call as it returned: at = the instant of its test, ver = the
\* marker it probed, was = the cache it found, reloaded = whether it loaded,
\* exp = the expiry it left
GetRec(c, c2, v, re) ==
    [at |-> now, ver |-> v, was |-> [loaded |-> c.loaded, version |-> c.version, ts |-> c.ts],
     reloaded |-> re, exp |-> c2.ts]

\* variables the cart handlers leave alone
still == <<stock, version, discounts, orders, now, fsm, loc, hist, stock0, raced,
           nextOid, runs, last, cart0, rt, reqs, gp, ld, sw, pr, po>>

\* the handler is over: why = "done", "raise" (the router's catch-all) or "exit"
\* (load_products raised; the marker the call had probed is kept on record)
JobDone(u, why) ==
    /\ pc' = [pc EXCEPT ![u] = "idle"]
    /\ job' = [job EXCEPT ![u] =
                 [NoJob EXCEPT !.n = job[u].n, !.stage = why,
                               !.probed = IF why = "exit" THEN job[u].probed ELSE 0]]

\* a get_products call begins: the probe of cell L1 is awaited (main.py:497)
Ask(u, j, stage) ==
    /\ pc' = [pc EXCEPT ![u] = "gp_probe"]
    /\ job' = [job EXCEPT ![u] = [j EXCEPT !.stage = stage]]

\* add_cart has returned (main.py:1498-1500, 1539): the add_ branch answers and
\* asks for the product's category, the inc_ branch goes on to its own append; an
\* answer that raises ends in the router's catch-all
AfterAdd(u, j) ==
    IF j.op = "add"
    THEN \/ Ask(u, j, "cat")
         \/ JobDone(u, "raise")
    ELSE /\ pc' = [pc EXCEPT ![u] = "ab_router"]
         /\ job' = [job EXCEPT ![u] = j]

\* alert_admin after an attempt that raised (main.py:578-580): sleep and try
\* again, ALERT_TRIES attempts in all; then add_cart goes on to its append
AlertRetry(u, j) ==
    IF j.tries + 1 < ALERT_TRIES
    THEN Ask(u, [j EXCEPT !.tries = @ + 1], "alert")
    ELSE /\ pc' = [pc EXCEPT ![u] = "ab_append"]
         /\ job' = [job EXCEPT ![u] = [j EXCEPT !.tries = @ + 1]]

\* get_products returns the map of cache c (main.py:511); the caller runs on to
\* its next await.  In add_cart that is the check and the change of the cart
\* (main.py:694-715), then alert_admin for a stock at or under the threshold
\* (main.py:717, 568); in alert_admin the message to the admin; in the router's
\* add_ branch the lookup of the category and then kb_category, which asks for
\* the map once more (main.py:1501-1506, 624); in its show_ branch the lookup of
\* the product (main.py:1466).
Got(u, c, g) ==
    LET j == job[u]
        cart == data[u].cart
    IN  /\ cache' = c
        /\ gets' = Last2(gets \o <<g>>)
        /\ CASE j.stage = "check" ->
                  LET r == AddLine(cart, c.data, j.pid, j.qty) IN
                  /\ data' = [data EXCEPT ![u].cart = r.cart]
                  /\ Note(u, OpRec(j.op, j.pid, j.qty, r.ok, cart, r.cart, c.data))
                  /\ IF ~r.ok THEN AfterAdd(u, j)
                     ELSE IF c.data[j.pid] <= LOW_STOCK_TH
                     THEN Ask(u, [j EXCEPT !.tries = 0], "alert")
                     ELSE /\ pc' = [pc EXCEPT ![u] = "ab_append"]
                          /\ job' = [job EXCEPT ![u] = j]
             [] j.stage = "alert" ->
                  /\ UNCHANGED <<data, ops>>
                  /\ \/ /\ pc' = [pc EXCEPT ![u] = "ab_append"]
                        /\ UNCHANGED job
                     \/ AlertRetry(u, j)
             [] j.stage = "cat" ->
                  /\ UNCHANGED <<data, ops>>
                  /\ IF j.pid \in DOMAIN c.data
                     THEN Ask(u, j, "kb")
                     ELSE JobDone(u, "raise")
             [] j.stage = "kb" ->
                  /\ UNCHANGED <<data, ops>>
                  /\ JobDone(u, "done")
             [] j.stage = "show" ->
                  /\ UNCHANGED <<data, ops>>
                  /\ JobDone(u, IF j.pid \in DOMAIN c.data THEN "done" ELSE "raise")

\* get_products raises an Exception (the probe failed; main.py:512-519) into its
\* caller: add_cart's catch-all returns False (main.py:733-735), alert_admin tries
\* again, the router ends in its catch-all
Raised(u) ==
    LET j == job[u]
        cart == data[u].cart
    IN  CASE j.stage = "check" ->
               /\ Note(u, [OpRec(j.op, j.pid, j.qty, FALSE, cart, cart, cache.data)
                              EXCEPT !.err = TRUE])
               /\ AfterAdd(u, j)
          [] j.stage = "alert" -> AlertRetry(u, j) /\ UNCHANGED ops
          [] j.stage \in {"cat", "kb", "show"} -> JobDone(u, "raise") /\ UNCHANGED ops

\* get_products, the probe of cell L1 and the test (main.py:497-504)
GpProbe(u) ==
    /\ pc[u] = "gp_probe"
    /\ \/ /\ NeedReload(cache, version)
          /\ pc' = [pc EXCEPT ![u] = "gp_load"]
          /\ job' = [job EXCEPT ![u].probed = version]
          /\ UNCHANGED <<cache, gets, data, ops>>
       \/ /\ ~NeedReload(cache, version)
          /\ Got(u, cache, GetRec(cache, cache, version, FALSE))
       \/ /\ Raised(u)
          /\ UNCHANGED <<cache, gets, data>>
    /\ UNCHANGED <<abandoned, still>>

\* a failed load that records the marker and a new expiry all the same
FailedLoad_Advanced(c, v) == [c EXCEPT !.loaded = TRUE, !.version = v, !.ts = now + CACHE_TTL]

\* the cache after a load_products that raised: the assignments of main.py:506-508
\* were not reached
FailedLoad(c, v) == c

\* the process ends and starts again: every session and the cache are gone
Halt(u) ==
    /\ data' = [v \in Users |-> Cleared]
    /\ cache' = NoCache
    /\ pc' = [v \in Users |-> IF pc[v] = "off" THEN "off" ELSE "idle"]
    /\ job' = [v \in Users |->
                 IF v = u
                 THEN [NoJob EXCEPT !.n = job[v].n, !.stage = "exit", !.probed = job[u].probed]
                 ELSE [NoJob EXCEPT !.n = job[v].n]]
    /\ ops' = [v \in Users |-> <<>>]
    /\ gets' = <<>>

\* get_products, the reload (main.py:506-508).  load_products raises SystemExit
\* on any error (main.py:433, 457, 460-462), which no except Exception catches:
\* it leaves the handler, and with it either the request alone or the process.
GpLoad(u) ==
    /\ pc[u] = "gp_load"
    /\ \/ LET c == Loaded(stock, job[u].probed, now) IN
          Got(u, c, GetRec(cache, c, job[u].probed, TRUE))
       \/ /\ cache' = FailedLoad(cache, job[u].probed)
          /\ JobDone(u, "exit")
          /\ UNCHANGED <<gets, data, ops>>
       \/ Halt(u)
    /\ UNCHANGED <<abandoned, still>>

\* the AbandonedCarts row for the cart of u as it is
AbandonedRow(u) == [user |-> u, cart |-> data[u].cart]

\* add_cart, abandoned_cart_ws.append_row (main.py:719-731; an error is logged and
\* dropped), then return True
AbAppend(u) ==
    /\ pc[u] = "ab_append"
    /\ \/ abandoned' = Append(abandoned, AbandonedRow(u))
       \/ UNCHANGED abandoned
    /\ AfterAdd(u, job[u])
    /\ UNCHANGED <<cache, gets, data, ops, still>>

\* router, inc_ / dec_ / del_: abandoned_cart_ws.append_row (main.py:1545-1556; an
\* error is logged and dropped), then the cart is rendered again
AbRouter(u) ==
    /\ pc[u] = "ab_router"
    /\ \/ abandoned' = Append(abandoned, AbandonedRow(u))
       \/ UNCHANGED abandoned
    /\ JobDone(u, "done")
    /\ UNCHANGED <<cache, gets, data, ops, still>>

\* a callback is taken while no handler of u is in flight
Begin(u, op, pid, qty) ==
    [NoJob EXCEPT !.op = op, !.pid = pid, !.qty = qty, !.n = job[u].n + 1,
                  !.c0 = data[u].cart, !.ab = Len(abandoned)]

\* add_cart(ctx, pid, qty) as the router's add_ branch calls it (main.py:1496-1507;
\* the router passes qty = 1, the function takes any)
CartAdd(u) ==
    /\ pc[u] = "idle"
    /\ job[u].n < MaxOps
    /\ \E pid \in Pids, qty \in 1..MaxAdd : Ask(u, Begin(u, "add", pid, qty), "check")
    /\ UNCHANGED <<cache, gets, data, ops, abandoned, still>>

\* router, inc_ (main.py:1530-1539): a product with no line returns at once
CartInc(u) ==
    /\ pc[u] = "idle"
    /\ job[u].n < MaxOps
    /\ \E pid \in Pids :
          /\ Find(data[u].cart, pid) # 0
          /\ Ask(u, Begin(u, "inc", pid, 1), "check")
    /\ UNCHANGED <<cache, gets, data, ops, abandoned, still>>

\* a change of the cart that needs no store call, up to the router's append
Change(u, op, pid, after) ==
    /\ data' = [data EXCEPT ![u].cart = after]
    /\ Note(u, OpRec(op, pid, 1, TRUE, data[u].cart, after, cache.data))
    /\ job' = [job EXCEPT ![u] = Begin(u, op, pid, 1)]

\* router, dec_ (main.py:1530-1541)
CartDec(u) ==
    /\ pc[u] = "idle"
    /\ job[u].n < MaxOps
    /\ \E pid \in Pids :
          /\ Find(data[u].cart, pid) # 0
          /\ Change(u, "dec", pid, DecLine(data[u].cart, pid))
    /\ pc' = [pc EXCEPT ![u] = "ab_router"]
    /\ UNCHANGED <<cache, gets, abandoned, still>>

\* router, del_ (main.py:1530-1543)
CartDel(u) ==
    /\ pc[u] = "idle"
    /\ job[u].n < MaxOps
    /\ \E pid \in Pids :
          /\ Find(data[u].cart, pid) # 0
          /\ Change(u, "del", pid, DelLine(data[u].cart, pid))
    /\ pc' = [pc EXCEPT ![u] = "ab_router"]
    /\ UNCHANGED <<cache, gets, abandoned, still>>

\* handle_cart_buttons, dec_ (handlers.py:488-490): decrement_item, then an answer
HandlerDec(u) ==
    /\ pc[u] = "idle"
    /\ job[u].n < MaxOps
    /\ \E pid \in Pids :
          /\ Find(data[u].cart, pid) # 0
          /\ Change(u, "hdec", pid, decrement_item(data[u].cart, pid))
    /\ UNCHANGED <<pc, cache, gets, abandoned, still>>

\* the clock moves on
Tick ==
    /\ \E d \in Delays : now + d <= Horizon /\ now' = now + d
    /\ UNCHANGED <<stock, version, discounts, orders, abandoned, cache, fsm, data, pc, loc,
                   hist, stock0, raced, nextOid, runs, last, cart0, job, ops, gets, rt, reqs, gp, ld, sw, pr, po>>

\* the Products sheet of the cart sessions: p1 with any stock, p2 with one piece
CartStocks == { [p \in Products |-> IF p = "p1" THEN s ELSE 1] : s \in 0..MaxCartStock }

\* one session with an empty cart and nothing cached, as after start-up
InitCart ==
    /\ stock \in CartStocks
    /\ stock0 = stock
    /\ version = 0
    /\ discounts = NoDiscounts
    /\ orders = <<>>
    /\ abandoned = <<>>
    /\ now = Now
    /\ cache = NoCache
    /\ fsm = [u \in Users |-> "NoCheckout"]
    /\ cart0 = [u \in Users |-> <<>>]
    /\ data = [u \in Users |-> Cleared]
    /\ pc = [u \in Users |-> IF u = "u1" THEN "idle" ELSE "off"]
    /\ loc = [u \in Users |-> NoLoc]
    /\ hist = [u \in Users |-> <<>>]
    /\ raced = FALSE
    /\ nextOid = 0
    /\ runs = [u \in Users |-> 0]
    /\ last = [u \in Users |-> NoLast]
    /\ job = [u \in Users |-> NoJob]
    /\ ops = [u \in Users |-> <<>>]
    /\ gets = <<>>
    /\ rt = NoRetry
    /\ reqs = NoReqs
    /\ gp = NoGets
    /\ ld = NoLoad
    /\ sw = NoSweep
    /\ pr = NoRun
    /\ po = NoPoll

CartStep(u) ==
    \/ CartAdd(u)
    \/ CartInc(u)
    \/ CartDec(u)
    \/ CartDel(u)
    \/ HandlerDec(u)
    \/ GpProbe(u)
    \/ GpLoad(u)
    \/ AbAppend(u)
    \/ AbRouter(u)

\* the cart callbacks of a session while clock and marker stay as they are
NextCart == \E u \in Users : CartStep(u)

SpecCart == InitCart /\ [][NextCart]_vars

\* router, show_ (main.py:1464-1494): one get_products call, then the product
\* is rendered
Show(u) ==
    /\ pc[u] = "idle"
    /\ job[u].n < MaxCalls
    /\ \E pid \in Pids : Ask(u, Begin(u, "show", pid, 0), "show")
    /\ UNCHANGED <<cache, gets, data, ops, abandoned, still>>

\* get_products calls one after another while the clock and the marker move
NextCache ==
    \/ Tick
    \/ BumpVersion
    \/ \E u \in Users : Show(u) \/ GpProbe(u) \/ GpLoad(u)

SpecCache == InitCart /\ [][NextCache]_vars

\* ------------------------------------------------------------- retry_gspread
MaxRetries == 4
MaxDelay == 3

\* how one invocation of the operation in its thread ends: it returns, it raises
\* gspread.exceptions.APIError, or it raises anything else
Outcomes == {"ok", "api", "other"}

\* variables retry_gspread leaves alone
apart == <<stock, version, discounts, orders, abandoned, cache, now, fsm, data, pc, loc,
           hist, stock0, raced, nextOid, runs, last, cart0, job, ops, gets, reqs, gp, ld, sw, pr, po>>

\* retry_gspread(func, *args, retries, delay) is called (g_sheets.py:11; the
\* callers leave retries = 3 and delay = 1)
RetryStart ==
    /\ rt.pc = "off"
    /\ \E r \in 0..MaxRetries, d \in 1..MaxDelay :
          rt' = [NoRetry EXCEPT !.pc = "call", !.retries = r, !.delay = d]
    /\ UNCHANGED apart

\* every error of the operation taken for one to try again after
Returned_RetryAll(r, o) ==
    LET q == [r EXCEPT !.outs = Append(@, o)] IN
    IF o = "ok" THEN [q EXCEPT !.pc = "done", !.out = "value"]
    ELSE IF r.attempt = r.retries - 1 THEN [q EXCEPT !.pc = "done", !.out = o]
    ELSE [q EXCEPT !.pc = "sleep", !.warns = @ + 1]

\* g_sheets.py:13-19: the value is returned; an APIError is raised again on the
\* last attempt and otherwise logged as a warning and slept on; no other except
\* clause is there, so any other exception leaves the function
Returned(r, o) ==
    LET q == [r EXCEPT !.outs = Append(@, o)] IN
    CASE o = "ok" -> [q EXCEPT !.pc = "done", !.out = "value"]
      [] o = "api" -> IF r.attempt = r.retries - 1
                      THEN [q EXCEPT !.pc = "done", !.out = "api"]
                      ELSE [q EXCEPT !.pc = "sleep", !.warns = @ + 1]
      [] o = "other" -> [q EXCEPT !.pc = "done", !.out = "other"]

\* one pass of the loop body: await asyncio.to_thread(func, ...) (g_sheets.py:12-17)
RetryCall ==
    /\ rt.pc = "call"
    /\ rt.attempt < rt.retries
    /\ \E o \in Outcomes : rt' = Returned(rt, o)
    /\ UNCHANGED apart

\* a sleep of the same length after every attempt
Backoff_Flat(d, k) == d

\* g_sheets.py:19  delay * (2 ** attempt)
Backoff(d, k) == d * 2 ^ k

\* await asyncio.sleep(delay * (2 ** attempt)), then the next attempt
\* (g_sheets.py:19, 12)
RetrySleep ==
    /\ rt.pc = "sleep"
    /\ rt' = [rt EXCEPT !.pc = "call", !.attempt = @ + 1,
                        !.slept = Append(@, Backoff(rt.delay, rt.attempt))]
    /\ UNCHANGED apart

\* the loop is over without a return or a raise: raise Exception("Max retries
\* reached ...") (g_sheets.py:20)
RetryExhaust ==
    /\ rt.pc = "call"
    /\ rt.attempt >= rt.retries
    /\ rt' = [rt EXCEPT !.pc = "done", !.out = "max"]
    /\ UNCHANGED apart

InitRetry == InitCart /\ stock = [p \in Products |-> 1]

NextRetry == RetryStart \/ RetryCall \/ RetrySleep \/ RetryExhaust

SpecRetry == InitRetry /\ [][NextRetry]_vars

\* ------------------------------------------------------------- cache, await by await
\* get_products and update_stock with every await a step of its own: between
\* the sheet read inside load_products and the assignments of main.py:506-508
\* lies the return of the awaited call, so other handlers run in between.

\* variables these calls leave alone
getfix == <<version, discounts, orders, abandoned, now, fsm, data, pc, loc, hist, stock0,
            raced, nextOid, runs, last, cart0, job, ops, gets, rt, reqs, ld, sw, pr, po>>

\* some update_stock has returned True
Committed == \E v \in Users : gp[v].kind = "commit" /\ gp[v].st = "done" /\ gp[v].ok

\* a handler calls get_products (main.py:494-497): the probe is awaited
GetStart(u) ==
    /\ gp[u].st \in {"off", "done"}
    /\ gp[u].n < MaxGets
    /\ gp' = [gp EXCEPT ![u] = [NoGet EXCEPT !.st = "g_probe", !.kind = "get",
                                             !.n = gp[u].n + 1, !.late = Committed]]
    /\ UNCHANGED <<stock, cache, getfix>>

\* confirm_order calls update_stock for a cart of one line of p1
\* (main.py:901, 759-762): the read of the sheet is awaited
CommitStart(u) ==
    /\ gp[u].st = "off"
    /\ gp[u].n = 0
    /\ \A v \in Users : gp[v].kind # "commit"
    /\ \E q \in 1..MaxQty :
          gp' = [gp EXCEPT ![u] = [NoGet EXCEPT !.st = "u_read", !.kind = "commit",
                                                !.n = MaxGets, !.qty = q]]
    /\ UNCHANGED <<stock, cache, getfix>>

\* the call of u is over
GetEnd(u, ok, ret) == gp' = [gp EXCEPT ![u].st = "done", ![u].ok = ok, ![u].ret = ret]

\* g_sheets.py:11  retry_gspread(func, *args, retries=3, delay=1)
RETRIES == 3

\* a store call of u raised an API error that the store would have repeated
\* for k attempts in a row: the call is made once, through asyncio.to_thread
\* (main.py:424, 497, 762, 776), and its error ends the operation
GetRaise(u) ==
    \E k \in 1..RETRIES :
       gp' = [gp EXCEPT ![u].st = "done", ![u].ok = FALSE, ![u].fails = k]

\* update_stock: get_all_records returned or raised, new_stock and its test
\* (main.py:762-774)
CommitRead(u) ==
    /\ gp[u].st = "u_read"
    /\ \/ IF stock["p1"] - gp[u].qty < 0
          THEN GetEnd(u, FALSE, gp[u].ret)
          ELSE gp' = [gp EXCEPT ![u].st = "u_write", ![u].rec = stock["p1"],
                                ![u].new = stock["p1"] - gp[u].qty]
       \/ GetRaise(u)
    /\ UNCHANGED <<stock, cache, getfix>>

\* update_stock: update_cell returned, get_products is called; or it raised
\* (main.py:776-777, 781-788)
CommitWrite(u) ==
    /\ gp[u].st = "u_write"
    /\ \/ /\ stock' = [stock EXCEPT !["p1"] = gp[u].new]
          /\ gp' = [gp EXCEPT ![u].st = "g_probe", ![u].wrote = TRUE]
       \/ /\ GetRaise(u)
          /\ UNCHANGED stock
    /\ UNCHANGED <<cache, getfix>>

\* get_products returns the map of cache c to its caller, which runs on
\* without an await: a handler takes the map; update_stock writes new_stock
\* into the line of the map and returns True (main.py:511, 777-780)
GetReturn(u, c, v, re) ==
    /\ cache' = IF gp[u].kind = "commit" THEN [c EXCEPT !.data["p1"] = gp[u].new] ELSE c
    /\ gp' = [gp EXCEPT ![u].st = "done", ![u].ok = TRUE, ![u].ret = cache'.data,
                        ![u].cur = v, ![u].re = re]

\* get_products: acell("L1") returned and the test of main.py:501-504 is made,
\* or it raised (main.py:512-519; update_stock then returns False)
GetProbe(u) ==
    /\ gp[u].st = "g_probe"
    /\ \/ /\ NeedReload(cache, version)
          /\ gp' = [gp EXCEPT ![u].st = "g_load", ![u].cur = version]
          /\ UNCHANGED cache
       \/ /\ ~NeedReload(cache, version)
          /\ GetReturn(u, cache, version, FALSE)
       \/ /\ GetRaise(u)
          /\ UNCHANGED cache
    /\ UNCHANGED <<stock, getfix>>

\* load_products: get_all_records reads the sheet in its thread
\* (main.py:424); a read that raises ends the process (main.py:460-462)
GetLoad(u) ==
    /\ gp[u].st = "g_load"
    /\ \/ /\ gp' = [gp EXCEPT ![u].st = "g_assign", ![u].snap = stock]
          /\ UNCHANGED cache
       \/ /\ \E k \in 1..RETRIES :
                gp' = [v \in Users |-> [NoGet EXCEPT !.n = MaxGets,
                                                     !.fails = IF v = u THEN k ELSE 0]]
          /\ cache' = NoCache
    /\ UNCHANGED <<stock, getfix>>

\* the cache after the assignments of a reload that uses the marker cached
\* before instead of the one probed
Assigned_OldMarker(c, snap, cur) == [Loaded(snap, cur, now) EXCEPT !.version = c.version]

\* main.py:506-508  _data, _version, _ts are assigned together
Assigned(c, snap, cur) == Loaded(snap, cur, now)

\* get_products: load_products has returned to the coroutine; the three
\* assignments and the return follow without an await (main.py:506-511)
GetAssign(u) ==
    /\ gp[u].st = "g_assign"
    /\ GetReturn(u, Assigned(cache, gp[u].snap, gp[u].cur), gp[u].cur, TRUE)
    /\ UNCHANGED <<stock, getfix>>

\* nothing cached, or the map of the sheet cached under marker 0 while the
\* sheet's marker is 0 or was moved on since
InitGet ==
    /\ stock \in { [p \in Products |-> IF p = "p1" THEN n ELSE 0] : n \in 0..MaxStock }
    /\ stock0 = stock
    /\ version \in 0..MaxVersion
    /\ discounts = NoDiscounts
    /\ orders = <<>>
    /\ abandoned = <<>>
    /\ now = Now
    /\ cache \in {NoCache, Loaded(stock, 0, now)}
    /\ fsm = [u \in Users |-> "NoCheckout"]
    /\ data = [u \in Users |-> Cleared]
    /\ cart0 = [u \in Users |-> <<>>]
    /\ pc = [u \in Users |-> "off"]
    /\ loc = [u \in Users |-> NoLoc]
    /\ hist = [u \in Users |-> <<>>]
    /\ raced = FALSE
    /\ nextOid = 0
    /\ runs = [u \in Users |-> 0]
    /\ last = [u \in Users |-> NoLast]
    /\ job = [u \in Users |-> NoJob]
    /\ ops = [u \in Users |-> <<>>]
    /\ gets = <<>>
    /\ rt = NoRetry
    /\ reqs = NoReqs
    /\ gp = NoGets
    /\ ld = NoLoad
    /\ sw = NoSweep
    /\ pr = NoRun
    /\ po = NoPoll

NextGet ==
    \E u \in Users :
       \/ GetStart(u)
       \/ CommitStart(u)
       \/ CommitRead(u)
       \/ CommitWrite(u)
       \/ GetProbe(u)
       \/ GetLoad(u)
       \/ GetAssign(u)

SpecGet == InitGet /\ [][NextGet]_vars

\* ------------------------------------------------------------- load_products
\* rows of the Products sheet a load is given
MaxRows == 2

\* A cell as get_all_records hands it over: gspread turns every cell that
\* reads as a number into an int or float ("num") and leaves every other cell,
\* the empty one included, a string ("str").
Cells == {"num", "str"}

\* the records of a sheet that has every required column (main.py:427-433):
\* id, price, stock and is_bestseller are the cells load_products converts
Rows == [id : Products, price : Cells, stock : Cells, best : Cells]

RECURSIVE SeqsUpTo(_, _)
SeqsUpTo(S, n) ==
    IF n = 0 THEN {<<>>}
    ELSE LET T == SeqsUpTo(S, n - 1) IN
         T \cup { Append(t, x) : t \in { q \in T : Len(q) = n - 1 }, x \in S }

\* the dict(...) of main.py:439-451 for record r, its arguments evaluated in
\* order: float(r["price"]) and int(r.get("stock", 0)) raise ValueError on a
\* string that is no number; r.get("is_bestseller", "FALSE").lower() raises
\* AttributeError on a number.  "ok", or the exception raised.
RowResult(r) ==
    IF r.price = "str" THEN "ValueError"
    ELSE IF r.stock = "str" THEN "ValueError"
    ELSE IF r.best = "num" THEN "AttributeError"
    ELSE "ok"

\* main.py:452  except (ValueError, KeyError): the row is skipped
Caught(e) == e \in {"ValueError", "KeyError"}

\* the loop of main.py:436-454 from record i on, products built so far in m:
\* a row that raises what the inner handler does not catch leaves the loop
\* for the outer handler (main.py:460-462)
RECURSIVE LoadLoop(_, _, _)
LoadLoop(rows, i, m) ==
    IF i > Len(rows) THEN [out |-> "map", products |-> m]
    ELSE LET e == RowResult(rows[i]) IN
         IF e = "ok"
         THEN LoadLoop(rows, i + 1,
                       [p \in DOMAIN m \cup {rows[i].id} |-> IF p = rows[i].id THEN rows[i] ELSE m[p]])
         ELSE IF Caught(e) THEN LoadLoop(rows, i + 1, m)
         ELSE [out |-> "exit", products |-> <<>>]

\* load_products over the records it read (main.py:436-462): no product at the
\* end is SystemExit as well
load_products(rows) ==
    LET r == LoadLoop(rows, 1, <<>>) IN
    IF r.out = "map" /\ DOMAIN r.products = {} THEN [out |-> "exit", products |-> <<>>] ELSE r

\* variables a load leaves alone
loadfix == <<stock, version, discounts, orders, abandoned, cache, now, fsm, data, pc, loc,
             hist, stock0, raced, nextOid, runs, last, cart0, job, ops, gets, rt, reqs, gp, sw, pr, po>>

\* load_products after its get_all_records returned
LoadRun ==
    /\ ld.st = "read"
    /\ LET r == load_products(ld.rows) IN
       ld' = [ld EXCEPT !.st = "done", !.out = r.out, !.products = r.products]
    /\ UNCHANGED loadfix

\* a Products sheet of up to MaxRows records was read
InitLoad ==
    /\ stock = [p \in Products |-> 1]
    /\ stock0 = stock
    /\ version = 0
    /\ discounts = NoDiscounts
    /\ orders = <<>>
    /\ abandoned = <<>>
    /\ now = Now
    /\ cache = NoCache
    /\ fsm = [u \in Users |-> "NoCheckout"]
    /\ data = [u \in Users |-> Cleared]
    /\ cart0 = [u \in Users |-> <<>>]
    /\ pc = [u \in Users |-> "off"]
    /\ loc = [u \in Users |-> NoLoc]
    /\ hist = [u \in Users |-> <<>>]
    /\ raced = FALSE
    /\ nextOid = 0
    /\ runs = [u \in Users |-> 0]
    /\ last = [u \in Users |-> NoLast]
    /\ job = [u \in Users |-> NoJob]
    /\ ops = [u \in Users |-> <<>>]
    /\ gets = <<>>
    /\ rt = NoRetry
    /\ reqs = NoReqs
    /\ gp = NoGets
    /\ \E rows \in SeqsUpTo(Rows, MaxRows) : ld = [NoLoad EXCEPT !.rows = rows, !.st = "read"]
    /\ sw = NoSweep
    /\ pr = NoRun
    /\ po = NoPoll

NextLoad == LoadRun

SpecLoad == InitLoad /\ [][NextLoad]_vars

\* ------------------------------------------------------------- reminder sweep
\* records on the AbandonedCarts sheet when a sweep begins
MaxLog == 3

\* the carts the records hold
LogCarts == { <<>>, <<Line("p1", 1)>>, <<Line("p1", MaxQty)>> }

\* variables a sweep leaves alone
sweepfix == <<stock, version, discounts, orders, cache, now, fsm, data, pc, loc, hist,
              stock0, raced, nextOid, runs, last, cart0, job, ops, gets, rt, reqs, gp, ld, pr, po>>

\* the except branch of send_cart_reminder (main.py:1164-1167): the error is
\* logged and sent to the admin; the sheet is left as it is
SweepError == sw' = [sw EXCEPT !.st = "done", !.out = "error"]

\* the loop of send_cart_reminder arrives at record i (main.py:1146-1150): a
\* record with an empty cart is passed over without an await
RECURSIVE SweepAt(_, _)
SweepAt(r, i) ==
    IF i > Len(r.records) THEN [r EXCEPT !.st = "clear", !.i = i]
    ELSE IF r.records[i].cart = <<>> THEN SweepAt(r, i + 1)
    ELSE [r EXCEPT !.st = "send", !.i = i]

\* job_queue runs send_cart_reminder (main.py:1142-1144)
SweepStart ==
    /\ sw.st = "off"
    /\ sw' = [NoSweep EXCEPT !.st = "read"]
    /\ UNCHANGED <<abandoned, sweepfix>>

\* records = abandoned_cart_ws.get_all_records() (main.py:1145)
SweepRead ==
    /\ sw.st = "read"
    /\ \/ sw' = SweepAt([sw EXCEPT !.records = abandoned], 1)
       \/ SweepError
    /\ UNCHANGED <<abandoned, sweepfix>>

\* main.py:1151-1160  send_message(user_id, ... fmt_cart(cart) ...) for the
\* record in work
Reminder(r) == Append(r.sent, r.records[r.i])

\* the reminder for record i is sent, or send_message raises (the user has
\* blocked the bot): the except branch
SweepSend ==
    /\ sw.st = "send"
    /\ \/ sw' = SweepAt([sw EXCEPT !.sent = Reminder(sw)], sw.i + 1)
       \/ SweepError
    /\ UNCHANGED <<abandoned, sweepfix>>

\* abandoned_cart_ws.clear() (main.py:1163)
SweepClear ==
    /\ sw.st = "clear"
    /\ \/ /\ abandoned' = <<>>
          /\ sw' = [sw EXCEPT !.st = "done", !.out = "cleared"]
       \/ /\ SweepError
          /\ UNCHANGED abandoned
    /\ UNCHANGED sweepfix

\* the records the cart handlers left on the sheet since the last clear
InitSweep ==
    /\ stock = [p \in Products |-> MaxStock]
    /\ stock0 = stock
    /\ version = 0
    /\ discounts = NoDiscounts
    /\ orders = <<>>
    /\ abandoned \in SeqsUpTo([user : Users, cart : LogCarts], MaxLog)
    /\ now = Now
    /\ cache = NoCache
    /\ fsm = [u \in Users |-> "NoCheckout"]
    /\ data = [u \in Users |-> Cleared]
    /\ cart0 = [u \in Users |-> <<>>]
    /\ pc = [u \in Users |-> "off"]
    /\ loc = [u \in Users |-> NoLoc]
    /\ hist = [u \in Users |-> <<>>]
    /\ raced = FALSE
    /\ nextOid = 0
    /\ runs = [u \in Users |-> 0]
    /\ last = [u \in Users |-> NoLast]
    /\ job = [u \in Users |-> NoJob]
    /\ ops = [u \in Users |-> <<>>]
    /\ gets = <<>>
    /\ rt = NoRetry
    /\ reqs = NoReqs
    /\ gp = NoGets
    /\ ld = NoLoad
    /\ sw = NoSweep
    /\ pr = NoRun
    /\ po = NoPoll

NextSweep == SweepStart \/ SweepRead \/ SweepSend \/ SweepClear

SpecSweep == InitSweep /\ [][NextSweep]_vars

\* ------------------------------------------------------------- update_stock, row by row
\* rows of the Products sheet in this specification
MaxSheet == 2

\* the rows the sheet may hold: a product may be missing from it, or be there
\* twice
SheetRows == [id : Products, stock : 0..MaxStock]

\* variables the run leaves alone
runfix == <<stock, version, discounts, orders, abandoned, cache, now, fsm, data, pc, loc,
            hist, stock0, raced, nextOid, runs, last, cart0, job, ops, gets, rt, reqs, gp,
            ld, sw, po>>

\* the two loops of update_stock (main.py:764-780) from cart line li and row
\* ri on, up to the next await: each row whose id is the line's id gives a
\* new_stock; a negative one returns False, any other is written.  A line
\* whose id no row carries passes without a write; past the last line the run
\* returns True.
RECURSIVE ScanFrom(_, _, _)
ScanFrom(r, li, ri) ==
    IF li > Len(r.cart) THEN [r EXCEPT !.st = "done", !.ok = TRUE]
    ELSE IF ri > Len(r.records) THEN ScanFrom(r, li + 1, 1)
    ELSE IF r.records[ri].id # r.cart[li].id THEN ScanFrom(r, li, ri + 1)
    ELSE LET new == r.records[ri].stock - r.cart[li].qty IN
         IF new < 0 THEN [r EXCEPT !.st = "done", !.ok = FALSE]
         ELSE [r EXCEPT !.st = "write", !.li = li, !.ri = ri, !.new = new]

\* the except branches of update_stock (main.py:781-788)
RunFailed == pr' = [pr EXCEPT !.st = "done", !.ok = FALSE]

\* records = products_ws.get_all_records() (main.py:762)
RunRead ==
    /\ pr.st = "read"
    /\ \/ pr' = ScanFrom([pr EXCEPT !.records = pr.sheet], 1, 1)
       \/ RunFailed
    /\ UNCHANGED runfix

\* products_ws.update_cell(idx, 10, new_stock) (main.py:776)
RunWrite ==
    /\ pr.st = "write"
    /\ \/ pr' = [pr EXCEPT !.st = "cache", !.sheet[pr.ri].stock = pr.new,
                            !.writes = Append(@, [line |-> pr.li, row |-> pr.ri,
                                                  value |-> pr.new])]
       \/ RunFailed
    /\ UNCHANGED runfix

\* (await get_products())[pid]["stock"] = new_stock (main.py:777), then the
\* loops go on with the next row
RunCache ==
    /\ pr.st = "cache"
    /\ \/ pr' = ScanFrom(pr, pr.li, pr.ri + 1)
       \/ RunFailed
    /\ UNCHANGED runfix

\* a cart of one or two lines is committed against a sheet of up to MaxSheet
\* rows
InitRun ==
    /\ stock = [p \in Products |-> MaxStock]
    /\ stock0 = stock
    /\ version = 0
    /\ discounts = NoDiscounts
    /\ orders = <<>>
    /\ abandoned = <<>>
    /\ now = Now
    /\ cache = NoCache
    /\ fsm = [u \in Users |-> "NoCheckout"]
    /\ data = [u \in Users |-> Cleared]
    /\ cart0 = [u \in Users |-> <<>>]
    /\ pc = [u \in Users |-> "off"]
    /\ loc = [u \in Users |-> NoLoc]
    /\ hist = [u \in Users |-> <<>>]
    /\ raced = FALSE
    /\ nextOid = 0
    /\ runs = [u \in Users |-> 0]
    /\ last = [u \in Users |-> NoLast]
    /\ job = [u \in Users |-> NoJob]
    /\ ops = [u \in Users |-> <<>>]
    /\ gets = <<>>
    /\ rt = NoRetry
    /\ reqs = NoReqs
    /\ gp = NoGets
    /\ ld = NoLoad
    /\ sw = NoSweep
    /\ \E sh \in SeqsUpTo(SheetRows, MaxSheet), c \in InitCarts :
          pr = [NoRun EXCEPT !.sheet = sh, !.cart = c, !.st = "read"]
    /\ po = NoPoll

NextRun == RunRead \/ RunWrite \/ RunCache

SpecRun == InitRun /\ [][NextRun]_vars

\* ------------------------------------------------------------- status poller
\* check_order_status is run by the job queue every 600 seconds
\* (main.py:1319), one run at a time.  Between two of its awaits the shop may
\* set the status of a row to shipped and a checkout may append a row.

\* data rows of the Orders sheet in this specification
MaxOrders == 2

\* variables the poller and the sheet edits leave alone
pollfix == <<stock, version, discounts, orders, abandoned, cache, now, fsm, data, pc, loc,
             hist, stock0, raced, nextOid, runs, last, cart0, job, ops, gets, rt, reqs, gp,
             ld, sw, pr>>

\* orders_ws.findall(s): the sheet rows whose status cell reads s, top down
findall(sheet, s) ==
    SelectSeq([k \in 1..Len(sheet) |-> k + 1], LAMBDA r : sheet[r - 1].status = s)

\* max((c.row for c in cells), default=1) (main.py:1109)
RECURSIVE MaxRow(_)
MaxRow(cells) ==
    IF cells = <<>> THEN 1
    ELSE LET m == MaxRow(Tail(cells)) IN IF Head(cells) > m THEN Head(cells) ELSE m

\* the loop of check_order_status from cell i on, up to the next await
\* (main.py:1074-1078): cells at or below the mark are passed over; past the
\* last cell the mark is moved to the highest row found (main.py:1107-1110)
RECURSIVE PollFrom(_, _)
PollFrom(r, i) ==
    IF i > Len(r.cells)
    THEN [r EXCEPT !.st = "idle", !.i = 0, !.status = "none",
                   !.mark = IF MaxRow(r.cells) > r.lastc THEN MaxRow(r.cells) ELSE r.lastc]
    ELSE IF r.cells[i] <= r.lastc THEN PollFrom(r, i + 1)
    ELSE [r EXCEPT !.st = "row", !.i = i]

\* the except branch (main.py:1111-1114): the run ends, the mark stays
PollFailed == po' = [po EXCEPT !.st = "idle", !.i = 0, !.status = "none", !.failed = TRUE]

\* last_checked_row = getattr(..., 1); shipped_cells = findall("shipped")
\* (main.py:1069-1071)
PollStart ==
    /\ po.st = "idle"
    /\ \/ po' = [po EXCEPT !.st = "find", !.lastc = po.mark,
                            !.shipped = findall(po.sheet, "shipped"), !.cells = <<>>]
       \/ PollFailed
    /\ UNCHANGED pollfix

\* preparing_cells = findall("preparing"), then the loop over
\* shipped_cells + preparing_cells begins (main.py:1072-1074)
PollFind ==
    /\ po.st = "find"
    /\ \/ po' = PollFrom([po EXCEPT !.cells = po.shipped \o findall(po.sheet, "preparing")], 1)
       \/ PollFailed
    /\ UNCHANGED pollfix

\* row_data = row_values(cell.row); a row already notified is passed over,
\* of any other the status is taken (main.py:1078-1085)
PollRow ==
    /\ po.st = "row"
    /\ \/ LET row == po.sheet[po.cells[po.i] - 1] IN
          IF row.notified
          THEN po' = PollFrom(po, po.i + 1)
          ELSE po' = [po EXCEPT !.st = "send", !.status = row.status]
       \/ PollFailed
    /\ UNCHANGED pollfix

\* send_message(user_id, msg[status]) (main.py:1087-1102)
PollSend ==
    /\ po.st = "send"
    /\ \/ po' = [po EXCEPT !.st = "update",
                            !.sent = @ \cup {[row |-> po.cells[po.i], status |-> po.status]}]
       \/ PollFailed
    /\ UNCHANGED pollfix

\* update_cell(cell.row, 18, "TRUE"), then the loop goes on (main.py:1104)
PollUpdate ==
    /\ po.st = "update"
    /\ \/ po' = PollFrom([po EXCEPT !.sheet[po.cells[po.i] - 1].notified = TRUE], po.i + 1)
       \/ PollFailed
    /\ UNCHANGED pollfix

\* a checkout appends a row for user u: status preparing, notified FALSE
\* (main.py:923-929)
OrderAppended(u) ==
    /\ po.st # "off"
    /\ Len(po.sheet) < MaxOrders
    /\ po' = [po EXCEPT !.sheet = Append(@, [user |-> u, status |-> "preparing",
                                              notified |-> FALSE])]
    /\ UNCHANGED pollfix

\* the shop sets the status of data row k to shipped
Shipped(k) ==
    /\ po.st # "off"
    /\ k <= Len(po.sheet)
    /\ po.sheet[k].status = "preparing"
    /\ po' = [po EXCEPT !.sheet[k].status = "shipped"]
    /\ UNCHANGED pollfix

PollStep == PollStart \/ PollFind \/ PollRow \/ PollSend \/ PollUpdate

InitPoll ==
    /\ stock = [p \in Products |-> MaxStock]
    /\ stock0 = stock
    /\ version = 0
    /\ discounts = NoDiscounts
    /\ orders = <<>>
    /\ abandoned = <<>>
    /\ now = Now
    /\ cache = NoCache
    /\ fsm = [u \in Users |-> "NoCheckout"]
    /\ data = [u \in Users |-> Cleared]
    /\ cart0 = [u \in Users |-> <<>>]
    /\ pc = [u \in Users |-> "off"]
    /\ loc = [u \in Users |-> NoLoc]
    /\ hist = [u \in Users |-> <<>>]
    /\ raced = FALSE
    /\ nextOid = 0
    /\ runs = [u \in Users |-> 0]
    /\ last = [u \in Users |-> NoLast]
    /\ job = [u \in Users |-> NoJob]
    /\ ops = [u \in Users |-> <<>>]
    /\ gets = <<>>
    /\ rt = NoRetry
    /\ reqs = NoReqs
    /\ gp = NoGets
    /\ ld = NoLoad
    /\ sw = NoSweep
    /\ pr = NoRun
    /\ po = [NoPoll EXCEPT !.st = "idle"]

NextPoll ==
    \/ PollStep
    \/ \E u \in Users : OrderAppended(u)
    \/ \E k \in 1..MaxOrders : Shipped(k)

\* the job queue starts a run every 600 seconds and an awaited call comes
\* back: the poller is never left waiting for ever
SpecPoll == InitPoll /\ [][NextPoll]_vars /\ WF_vars(PollStep)

\* ------------------------------------------------------------- webhook
\* Every POST of Telegram is a task of its own in the server; webhook_handler
\* awaits tg_app.process_update(update) inside that task (main.py:1360-1380), so
\* the updates do not pass through the update queue of the Application, and
\* nothing keeps two requests of one user apart.  The handler an update goes to
\* is chosen by the state the conversation has when the update is dispatched;
\* the state a handler returns is written when it returns.

\* the texts the requests carry
HookTexts == { <<"A">>, SKIP, CANCEL }

\* the conversation states the sessions are in when the requests arrive
HookStates == {"NoCheckout", "AwaitingName", "AwaitingPostal", "AwaitingNotes"}

\* the keys ctx.user_data holds in a session that has come to state st
KeysAt(st) ==
    {"dest"} \cup
    (IF st = "NoCheckout" THEN {} ELSE {"ident", "name"}) \cup
    (IF st \in {"AwaitingPostal", "AwaitingNotes"} THEN {"phone", "address"} ELSE {}) \cup
    (IF st = "AwaitingNotes" THEN {"postal", "discount_code"} ELSE {})

\* ctx.user_data of a session that has come to state st with a cart of one p1
\* and skipped the discount
SessionAt(st) ==
    LET ks == KeysAt(st)
        v(k) == IF k \in ks THEN <<"A">> ELSE <<>>
    IN  [keys |-> ks, dest |-> "Perugia", name |-> IF "name" \in ks THEN PROFILE ELSE <<>>,
         phone |-> v("phone"), address |-> v("address"), postal |-> v("postal"),
         discount_code |-> <<>>, notes |-> <<>>, cart |-> <<Line("p1", 1)>>]

\* variables the requests leave alone
hookfix == <<version, discounts, now, pc, loc, hist, stock0, raced, runs, last, cart0,
             job, ops, gets, rt, gp, ld, sw, pr, po>>

\* webhook_handler up to await req.json() (main.py:1360-1368)
HookArrive(r) ==
    /\ reqs[r].st = "none"
    /\ \E u \in Users, msg \in HookTexts :
          reqs' = [reqs EXCEPT ![r] = [NoReq EXCEPT !.st = "json", !.u = u, !.msg = msg]]
    /\ UNCHANGED <<fsm, data, stock, cache, orders, abandoned, nextOid, hookfix>>

\* the key an ask handler stores the text under, and the state it returns
\* (main.py:818-860)
HookKey(h) ==
    CASE h = "ask_phone" -> "name"
      [] h = "ask_address" -> "phone"
      [] h = "ask_postal" -> "address"
      [] h = "ask_discount" -> "postal"

HookNext(h) ==
    CASE h = "ask_phone" -> "AwaitingPhone"
      [] h = "ask_address" -> "AwaitingAddress"
      [] h = "ask_postal" -> "AwaitingPostal"
      [] h = "ask_discount" -> "AwaitingDiscount"

\* the update is parsed and dispatched (main.py:1369-1376; registration
\* main.py:1330-1341): the handler for the state of the conversation runs up to
\* its first await.  The ask handlers store the text and await their prompt;
\* ask_notes on /skip stores no code, otherwise it awaits load_discounts (no
\* code is on the sheet here, so the state is kept); cancel_order clears;
\* confirm_order stores the notes, takes the cart and, unless it is empty,
\* awaits the read of update_stock (main.py:887-901, 762).
HookDispatch(r) ==
    LET q == reqs[r]
        u == q.u
        h == HandlerFor(fsm[u], q.msg)
        d == data[u]
        go(st, out) == reqs' = [reqs EXCEPT ![r] = [q EXCEPT !.st = st, !.h = h, !.out = out,
                                                             !.cart = d.cart]]
    IN  /\ q.st = "json"
        /\ CASE h = "none" ->
                  /\ reqs' = [reqs EXCEPT ![r].st = "done"]
                  /\ UNCHANGED data
             [] h \in {"ask_phone", "ask_address", "ask_postal", "ask_discount"} ->
                  /\ data' = [data EXCEPT ![u] = Put(d, HookKey(h), Strip(q.msg))]
                  /\ go("reply", HookNext(h))
             [] h = "ask_notes" ->
                  IF q.msg = SKIP
                  THEN /\ data' = [data EXCEPT ![u] = Put(d, "discount_code", <<>>)]
                       /\ go("reply", "AwaitingNotes")
                  ELSE /\ UNCHANGED data
                       /\ go("reply", "AwaitingDiscount")
             [] h = "cancel_order" ->
                  /\ data' = [data EXCEPT ![u] = Clear(d)]
                  /\ go("reply", "Cancelled")
             [] h = "confirm_order" ->
                  /\ data' = [data EXCEPT ![u] =
                                Put(d, "notes", IF q.msg = SKIP THEN <<>> ELSE Strip(q.msg))]
                  /\ IF d.cart = <<>> THEN go("clear", "Cancelled") ELSE go("read", "")
        /\ UNCHANGED <<fsm, stock, cache, orders, abandoned, nextOid, hookfix>>

\* update_stock for the one line of the cart the handler holds: the read and
\* the test (main.py:762-774)
HookRead(r) ==
    LET q == reqs[r]
        it == q.cart[1]
    IN  /\ q.st = "read"
        /\ reqs' = [reqs EXCEPT ![r] =
                      IF stock[it.id] - it.qty < 0
                      THEN [q EXCEPT !.st = "clear", !.out = "Cancelled"]
                      ELSE [q EXCEPT !.st = "write", !.rec = stock[it.id]]]
        /\ UNCHANGED <<fsm, data, stock, cache, orders, abandoned, nextOid, hookfix>>

\* update_stock: update_cell, then the line of the cached map (main.py:776-777;
\* marker and clock stand still here, so get_products returns the cached map)
HookWrite(r) ==
    LET q == reqs[r]
        it == q.cart[1]
    IN  /\ q.st = "write"
        /\ stock' = [stock EXCEPT ![it.id] = q.rec - it.qty]
        /\ cache' = [cache EXCEPT !.data[it.id] = q.rec - it.qty]
        /\ reqs' = [reqs EXCEPT ![r].st = "append"]
        /\ UNCHANGED <<fsm, data, orders, abandoned, nextOid, hookfix>>

\* confirm_order after update_stock returned True: the address is read from
\* ctx.user_data as it is now (main.py:916; KeyError when the session was
\* cleared meanwhile: the catch-all), then the Orders row is appended
\* (main.py:920-930)
HookAppend(r) ==
    LET q == reqs[r]
        u == q.u
        l == [NoLoc EXCEPT !.oid = nextOid + 1, !.ts = now]
    IN  /\ q.st = "append"
        /\ IF {"address", "postal"} \subseteq data[u].keys
           THEN /\ orders' = Append(orders, OrderRow(u, l, data[u], q.cart[1]))
                /\ nextOid' = nextOid + 1
                /\ reqs' = [reqs EXCEPT ![r] = [q EXCEPT !.st = "clear", !.out = "Completed"]]
           ELSE /\ reqs' = [reqs EXCEPT ![r] = [q EXCEPT !.st = "clear", !.out = "Failed"]]
                /\ UNCHANGED <<orders, nextOid>>
        /\ UNCHANGED <<fsm, data, stock, cache, abandoned, hookfix>>

\* confirm_order: the last messages are sent and, for an order that was
\* stored, the AbandonedCarts sheet is cleared (main.py:935-987); then
\* ctx.user_data.clear() (main.py:897-899, 902-904, 989-990, 993-995)
HookClear(r) ==
    LET q == reqs[r] IN
    /\ q.st = "clear"
    /\ data' = [data EXCEPT ![q.u] = Clear(@)]
    /\ abandoned' = IF q.out = "Completed" THEN <<>> ELSE abandoned
    /\ reqs' = [reqs EXCEPT ![r].st = "reply"]
    /\ UNCHANGED <<fsm, stock, cache, orders, nextOid, hookfix>>

\* the handler returns: the ConversationHandler writes the state it returned
\* for the user, whatever state the conversation has by now
HookReturn(r) ==
    LET q == reqs[r] IN
    /\ q.st = "reply"
    /\ fsm' = [fsm EXCEPT ![q.u] = q.out]
    /\ reqs' = [reqs EXCEPT ![r].st = "done"]
    /\ UNCHANGED <<data, stock, cache, orders, abandoned, nextOid, hookfix>>

\* sessions in their conversations, no request yet
InitHook ==
    /\ stock \in { [p \in Products |-> IF p = "p1" THEN n ELSE 0] : n \in 0..MaxStock }
    /\ stock0 = stock
    /\ version = 0
    /\ discounts = NoDiscounts
    /\ orders = <<>>
    /\ abandoned = <<>>
    /\ now = Now
    /\ cache = Loaded(stock, version, now)
    /\ fsm \in [Users -> HookStates]
    /\ data = [u \in Users |-> SessionAt(fsm[u])]
    /\ cart0 = [u \in Users |-> data[u].cart]
    /\ pc = [u \in Users |-> "off"]
    /\ loc = [u \in Users |-> NoLoc]
    /\ hist = [u \in Users |-> <<>>]
    /\ raced = FALSE
    /\ nextOid = 0
    /\ runs = [u \in Users |-> 0]
    /\ last = [u \in Users |-> NoLast]
    /\ job = [u \in Users |-> NoJob]
    /\ ops = [u \in Users |-> <<>>]
    /\ gets = <<>>
    /\ rt = NoRetry
    /\ reqs = NoReqs
    /\ gp = NoGets
    /\ ld = NoLoad
    /\ sw = NoSweep
    /\ pr = NoRun
    /\ po = NoPoll

NextHook ==
    \E r \in Reqs :
       \/ HookArrive(r)
       \/ HookDispatch(r)
       \/ HookRead(r)
       \/ HookWrite(r)
       \/ HookAppend(r)
       \/ HookClear(r)
       \/ HookReturn(r)

SpecHook == InitHook /\ [][NextHook]_vars

\* ------------------------------------------------------------- properties
\* quantity of product p on the Orders sheet
Ordered(p) ==
    SumSeq([i \in 1..Len(orders) |-> IF orders[i].product_id = p THEN orders[i].qty ELSE 0])

\* none of the fields a checkout collects is on the session of u
NoneCollected(u) == data[u].keys \cap Collected = {}

\* how often event e stands in h
Count(h, e) == Cardinality({ i \in 1..Len(h) : h[i] = e })

\* no await of the checkout of u raised
NoFault(u) == ~loc[u].fault /\ last[u].raised = "no"

\* every line of the cart u came with is covered by the stock update_stock read
Sufficient(u) ==
    \A i \in 1..Len(cart0[u]) : cart0[u][i].qty <= loc[u].records[cart0[u][i].id]

\* C1: whenever update_stock has failed on a line whose new stock would be
\* negative (no call raised), the stock column and the cached stock of every
\* product are what they were before the call.
C1_AllOrNothing ==
    \A u \in Users :
        (loc[u].commit = "failed" /\ ~loc[u].fault)
            => (stock = stock0 /\ cache.data = stock0)

\* C2: the quantity ordered of a product exceeds the stock there was only when
\* one update_stock read the sheet while another was between its read and the end
\* of its writes; without such an overlap the re-read check keeps orders within
\* stock.
C2_OversellOnlyByOverlap == Ordered("p1") > stock0["p1"] => raced

\* C2, the interleaving itself: both sessions asked for no more than the stock,
\* both commits succeeded, both orders are on the sheet, and together they exceed
\* the stock.
C2_Oversold ==
    /\ \A u \in Users :
          /\ fsm[u] = "Completed"
          /\ loc[u].commit = "ok"
          /\ loc[u].records = stock0
          /\ cart0[u][1].qty <= stock0["p1"]
          /\ RowsBy(u) # {}
    /\ Ordered("p1") > stock0["p1"]

\* the place of an event in a confirm_order run
Rank(e) ==
    CASE e = "empty_check" -> 1
      [] e \in {"commit_ok", "commit_fail", "admin_stock_error"} -> 2
      [] e = "total" -> 3
      [] e = "row" -> 4
      [] e \in {"user_confirm", "storage_error"} -> 5
      [] e = "admin_new_order" -> 6
      [] e = "ab_clear" -> 7
      [] e = "session_clear" -> 8

\* C3: the events of a confirm_order run come in the order empty-cart check,
\* stock commit, total, order rows, user confirmation, admin notification,
\* abandoned-cart clear, session clear; a row is appended only after the commit
\* succeeded, the rows on the sheet are those the run appended, and the admin
\* notification and the abandoned-cart clear come only after one row per cart line.
C3_StepOrder ==
    \A u \in Users :
        LET h == hist[u] IN
        /\ \A i, j \in 1..Len(h) :
              i < j => /\ Rank(h[i]) <= Rank(h[j])
                       /\ (Rank(h[i]) = Rank(h[j]) =>
                              h[i] = "row" \/ <<h[i], h[j]>> = <<"admin_stock_error", "commit_fail">>)
        /\ h # <<>> =>
              /\ h[1] = "empty_check"
              /\ Cardinality(RowsBy(u)) = loc[u].mark + Count(h, "row")
        /\ Count(h, "row") > 0 => Count(h, "commit_ok") = 1 /\ Count(h, "total") = 1
        /\ (Count(h, "admin_new_order") > 0 \/ Count(h, "ab_clear") > 0 \/ pc[u] \in {"c_admin", "c_abclear"})
              => Count(h, "row") = loc[u].lines /\ Count(h, "user_confirm") = 1
        /\ pc[u] = "c_abclear" => ~loc[u].fault
        /\ fsm[u] = "Completed" => h[Len(h)] = "session_clear"

\* C3, a complete run over a cart of two lines
C3_FullRun ==
    hist["u1"] = <<"empty_check", "commit_ok", "total", "row", "row", "user_confirm",
                   "admin_new_order", "ab_clear", "session_clear">>

\* C4: after /cancel was taken in an intermediate state the checkout is Cancelled,
\* no collected field is left, no stock value has changed and no order row exists.
C4_CancelEverywhere ==
    \A u \in Users :
        (last[u].msg = CANCEL /\ last[u].from \in Intermediate)
            => /\ fsm[u] = "Cancelled"
               /\ NoneCollected(u)
               /\ stock = stock0
               /\ orders = <<>>

\* C5: after /cancel was taken in AwaitingAddress no collected field is left, the
\* cart is the one the user had, no order row exists and no stock value changed.
C5_CancelKeepsCart ==
    \A u \in Users :
        (last[u].msg = CANCEL /\ last[u].from = "AwaitingAddress")
            => /\ NoneCollected(u)
               /\ data[u].cart = cart0[u]
               /\ orders = <<>>
               /\ stock = stock0

\* the successor of each state on the line of the checkout
NextState ==
    [st \in Intermediate |->
        CASE st = "AwaitingName" -> "AwaitingPhone"
          [] st = "AwaitingPhone" -> "AwaitingAddress"
          [] st = "AwaitingAddress" -> "AwaitingPostal"
          [] st = "AwaitingPostal" -> "AwaitingDiscount"
          [] st = "AwaitingDiscount" -> "AwaitingNotes"
          [] st = "AwaitingNotes" -> "Confirming"]

\* the session field each free-text state fills
FieldOf(d, st) ==
    CASE st = "AwaitingName" -> d.name
      [] st = "AwaitingPhone" -> d.phone
      [] st = "AwaitingAddress" -> d.address
      [] st = "AwaitingPostal" -> d.postal

\* n runs of whitespace
Pad(n) == [i \in 1..n |-> " "]

\* v is msg without the whitespace around it
TrimOf(msg, v) ==
    /\ v = <<>> \/ (Head(v) # " " /\ v[Len(v)] # " ")
    /\ \E a, b \in 0..Len(msg) : msg = Pad(a) \o v \o Pad(b)

\* a change of the checkout state the line allows: one step forward, the end of
\* the checkout from any state under way, a new checkout after the end, and the
\* loss of every conversation when the process restarts
LineStep(a, b) ==
    \/ a \in Intermediate /\ b = NextState[a]
    \/ a \in Intermediate \cup {"Confirming"} /\ b \in Terminal
    \/ a \in Terminal \cup {"NoCheckout"} /\ b \in {"AwaitingName", "Failed"}
    \/ b = "NoCheckout"

NotExpired(r) == r.date_ok /\ r.at >= now

\* C7: right after a message was taken in AwaitingDiscount (its reply delivered):
\* /skip has led to AwaitingNotes with no code stored; a code that is in the table
\* read, active and not expired has led to AwaitingNotes with that code stored;
\* anything else has led back to AwaitingDiscount with no code stored.
C7_DiscountStep ==
    \A u \in Users :
        (last[u].from = "AwaitingDiscount" /\ last[u].raised # "reply") =>
            LET msg == last[u].msg
                tbl == last[u].seen
                code == Strip(msg)
            IN  IF msg = SKIP
                THEN fsm[u] = "AwaitingNotes" /\ data[u].discount_code = <<>>
                ELSE IF code \in DOMAIN tbl /\ tbl[code].is_active /\ NotExpired(tbl[code])
                THEN fsm[u] = "AwaitingNotes" /\ data[u].discount_code = code
                ELSE fsm[u] = "AwaitingDiscount" /\ "discount_code" \notin data[u].keys

\* C8: a checkout whose notes were taken, with a cart the stock covers and no
\* call raising, ends Completed; and a Completed checkout has one row per cart
\* line, with discount 0 and total = sum of qty x price when no code was stored,
\* and with discount = subtotal x percent / 100 and total = subtotal - discount
\* when one was.
C8_Totals ==
    \A u \in Users :
        LET sub == cart_total(cart0[u]) IN
        /\ (fsm[u] \in Terminal /\ last[u].from = "AwaitingNotes" /\ NoFault(u)
              /\ loc[u].lines > 0 /\ Sufficient(u))
              => fsm[u] = "Completed"
        /\ fsm[u] = "Completed" =>
              /\ loc[u].lines = Len(cart0[u])
              /\ Cardinality(RowsBy(u)) = loc[u].mark + loc[u].lines
              /\ \A i \in RowsBy(u) :
                    LET r == orders[i] IN
                    /\ r.discount = loc[u].discount
                    /\ r.subtotal = r.qty * r.unit_price
                    /\ IF r.discount_code = <<>>
                       THEN r.discount = 0 /\ loc[u].total = sub
                       ELSE /\ r.discount * 100 = sub * discounts[r.discount_code].discount_percent
                            /\ loc[u].total = sub - r.discount

\* C8, a Completed checkout with a 10% code: the total is 0.9 x subtotal
C8_TenPercent ==
    /\ fsm["u1"] = "Completed"
    /\ orders # <<>>
    /\ orders[1].discount_code = SAVE
    /\ discounts[SAVE].discount_percent = 10
    /\ loc["u1"].discount > 0
    /\ loc["u1"].total * 10 = 9 * cart_total(cart0["u1"])

\* C9: in every terminal state none of the collected checkout fields is left on
\* the session.
C9_TerminalCleared ==
    \A u \in Users : fsm[u] \in Terminal => NoneCollected(u)

Held(c, pid) ==
    SumSeq([i \in 1..Len(c) |-> IF c[i].id = pid THEN c[i].qty ELSE 0])

\* the step in which add_cart decides: its get_products call returns or raises
AddDecided(u) ==
    /\ pc[u] \in {"gp_probe", "gp_load"}
    /\ job[u].stage = "check"
    /\ ~(pc'[u] = "gp_load" /\ job'[u].stage = "check")
    /\ job'[u].stage # "exit"

LastOp(u) == ops[u][Len(ops[u])]

\* C12: add_cart for a product id the product map does not have, or whose stock
\* in the map is less than the quantity already in the cart plus the quantity
\* asked for (so for every product with stock 0), returns failure and leaves the
\* lines of the cart and their quantities as they were.
C12_AddRefused ==
    [][\A u \in Users :
         AddDecided(u) =>
            LET pid == job[u].pid
                c == data[u].cart
                r == ops'[u][Len(ops'[u])]
            IN  (\/ pid \notin DOMAIN cache'.data
                 \/ cache'.data[pid] < Held(c, pid) + job[u].qty)
                   => ~r.ok /\ data'[u].cart = c]_vars

\* an add to a cart that holds lines was refused for want of stock
C12_Refused ==
    /\ ops["u1"] # <<>>
    /\ LET r == LastOp("u1") IN
          /\ r.op = "add" /\ r.known /\ ~r.err
          /\ r.before # <<>>
          /\ r.seen < Held(r.before, r.pid) + r.qty
          /\ ~r.ok
          /\ data["u1"].cart = r.before

\* C13: after every add_cart that succeeds, asked for by an add or by an
\* increment, the line it changed holds no more than the stock the product map
\* of that call has for the product; an increment is add_cart with quantity 1
\* and the same comparison, so a line that holds the whole stock is not
\* incremented and the cart stays as it was.
C13_WithinStock ==
    [][\A u \in Users :
         AddDecided(u) =>
            LET pid == job[u].pid
                c == data[u].cart
                r == ops'[u][Len(ops'[u])]
            IN  /\ r.ok => /\ pid \in DOMAIN cache'.data
                           /\ Held(data'[u].cart, pid) <= cache'.data[pid]
                           /\ Held(data'[u].cart, pid) = Held(c, pid) + job[u].qty
                /\ job[u].op = "inc" =>
                      /\ job[u].qty = 1
                      /\ (~r.err /\ Held(c, pid) = cache'.data[pid])
                            => ~r.ok /\ data'[u].cart = c]_vars

\* an increment filled a line up to the stock and the next one was refused
C13_AtStock ==
    /\ Len(ops["u1"]) = 2
    /\ LET r == ops["u1"][1]
           q == ops["u1"][2]
       IN  /\ r.op = "inc" /\ r.ok /\ Held(r.after, r.pid) = r.seen
           /\ q.op = "inc" /\ q.pid = r.pid /\ ~q.err /\ ~q.ok
           /\ q.before = r.after /\ q.after = r.after
           /\ data["u1"].cart = r.after

\* the step in which a decrement event of u is handled
Decremented(u) == job'[u].n = job[u].n + 1 /\ job'[u].op \in {"dec", "hdec"}

Ids(c) == [i \in 1..Len(c) |-> c[i].id]

\* the lines of u keep their order over a step: nothing moved, one line gone,
\* a line of a product not yet in the cart put at the end, or the cart emptied
KeepsOrder(u) ==
    LET a == Ids(data[u].cart)
        b == Ids(data'[u].cart)
    IN  \/ b = a
        \/ \E i \in 1..Len(a) : b = RemoveAt(a, i)
        \/ \E p \in Pids : (\A i \in 1..Len(a) : a[i] # p) /\ b = Append(a, p)
        \/ b = <<>>

\* C15: whatever add, increment, decrement and remove events a session has
\* handled, its cart has at most one line for a product id, every line holds at
\* least 1, and the lines stand in the order in which they were first put in.
C15_CartShape ==
    /\ [](\A u \in Users :
            LET c == data[u].cart IN
            /\ \A i, j \in 1..Len(c) : c[i].id = c[j].id => i = j
            /\ \A i \in 1..Len(c) : c[i].qty >= 1)
    /\ [][\A u \in Users : KeepsOrder(u)]_vars

\* p2 was put in before p1, and p1 was incremented afterwards
C15_TwoLines ==
    /\ Ids(data["u1"].cart) = <<"p2", "p1">>
    /\ ops["u1"] # <<>>
    /\ LastOp("u1").op = "inc" /\ LastOp("u1").ok
    /\ data["u1"].cart[2].qty = 2

\* two add_cart calls of u for one product, one right after the other, both
\* with a product map that has stock for the line as it was plus both quantities
TwoAdds(u) ==
    /\ Len(ops[u]) = 2
    /\ LET r == ops[u][1]
           q == ops[u][2]
       IN  /\ r.op = "add" /\ q.op = "add" /\ q.pid = r.pid
           /\ ~r.err /\ ~q.err /\ r.known /\ q.known
           /\ r.seen >= Held(r.before, r.pid) + r.qty + q.qty
           /\ q.seen >= Held(r.before, r.pid) + r.qty + q.qty

\* C16: for a product whose cached stock covers the quantity of its line plus
\* a plus b, add_cart with quantity a and then add_cart with quantity b leave
\* the cart as one add_cart with quantity a + b would.
C16_AddsAddUp ==
    \A u \in Users :
       TwoAdds(u) =>
          LET r == ops[u][1]
              q == ops[u][2]
              once == AddLine(r.before, [p \in {r.pid} |-> r.seen], r.pid, r.qty + q.qty)
          IN  /\ r.ok /\ q.ok /\ once.ok
              /\ q.before = r.after
              /\ q.after = once.cart
              /\ (job[u].op = "add" /\ pc[u] = "ab_append") => data[u].cart = once.cart

\* MaxAdd pieces were added twice to a product with stock for both
C16_TwiceTwo ==
    /\ TwoAdds("u1")
    /\ ops["u1"][1].qty = MaxAdd /\ ops["u1"][2].qty = MaxAdd
    /\ ops["u1"][1].before = <<>>
    /\ pc["u1"] = "ab_append"
    /\ data["u1"].cart = <<Line(ops["u1"][1].pid, 2 * MaxAdd)>>

\* C17: of two get_products calls one after the other, the second made before
\* the expiry the first left and with the same version marker in cell L1, the
\* second returns the cached map without a reload: a first call that had to
\* load is the only load of the two.
C17_OneReload ==
    Len(gets) = 2 =>
       LET g == gets[1]
           h == gets[2]
       IN  (h.ver = g.ver /\ h.at < g.exp) =>
              /\ ~h.reloaded
              /\ h.exp = g.exp
              /\ h.was = [loaded |-> TRUE, version |-> g.ver, ts |-> g.exp]
              /\ Cardinality({i \in 1..2 : gets[i].reloaded}) = IF g.reloaded THEN 1 ELSE 0

\* a call that loaded, and half a TTL later a call that did not
C17_SecondCached ==
    /\ Len(gets) = 2
    /\ gets[1].reloaded /\ ~gets[2].reloaded
    /\ gets[2].ver = gets[1].ver
    /\ gets[1].at < gets[2].at /\ gets[2].at < gets[1].exp

LoadFailed(u) == pc[u] = "gp_load" /\ job'[u].stage = "exit"

\* C19: when the reload get_products found necessary fails, the call does not
\* return (the previous map is not handed to the caller, who does not go on);
\* the cached marker and expiry are not moved forward, so that a next call
\* that reads the same marker has to load again.
C19_FailedReload ==
    /\ [][\A u \in Users :
            LoadFailed(u) =>
               /\ pc'[u] = "idle"
               /\ gets' \in {gets, <<>>}
               /\ ops'[u] \in {ops[u], <<>>}
               /\ cache' \in {cache, NoCache}
               /\ NeedReload(cache', job[u].probed)]_vars
    /\ [](\A u \in Users :
            (job[u].stage = "exit" /\ version = job[u].probed) => NeedReload(cache, version))

\* a map was cached, the marker changed, and the reload for it failed
C19_StaleKept ==
    /\ job["u1"].stage = "exit"
    /\ cache.loaded
    /\ cache.version # job["u1"].probed
    /\ version = job["u1"].probed
    /\ now <= cache.ts
    /\ gets # <<>>

\* C20: retry_gspread invokes the operation again only after an invocation
\* that raised the API error; any other error of the operation leaves the call
\* at once, with no sleep and no further invocation after it, so that an
\* operation whose first invocation raises such an error is invoked exactly
\* once.
C20_RetryOnlyApiError ==
    LET n == Len(rt.outs) IN
    /\ \A i \in 1..n : i < n => rt.outs[i] = "api"
    /\ Len(rt.slept) <= Cardinality({i \in 1..n : rt.outs[i] = "api"})
    /\ rt.pc = "sleep" => rt.outs[n] = "api"
    /\ \A i \in 1..n :
          rt.outs[i] = "other" =>
             /\ i = n /\ rt.pc = "done" /\ rt.out = "other"
             /\ Len(rt.slept) = n - 1
    /\ (n > 0 /\ rt.outs[1] = "other") => n = 1 /\ rt.slept = <<>>

\* with the callers' three attempts, the first invocation raised another error
C20_RaisedAtOnce ==
    /\ rt.retries = 3
    /\ rt.outs = <<"other">>
    /\ rt.out = "other" /\ rt.pc = "done"
    /\ rt.slept = <<>>

\* C21: retry_gspread invokes the operation at most retries times and returns
\* at the first invocation that succeeds; when every one of the retries >= 1
\* attempts raises the API error the call fails with it after the last attempt
\* without another sleep; the sleep after failed attempt k (from 0) is
\* delay * 2^k, and each retry is announced by exactly one warning, retries - 1
\* of them when all attempts fail.
C21_BoundedBackoff ==
    LET n == Len(rt.outs) IN
    /\ n <= rt.retries
    /\ rt.out = "value" <=> (n > 0 /\ rt.outs[n] = "ok")
    /\ \A i \in 1..n : rt.outs[i] = "ok" => i = n /\ rt.pc = "done"
    /\ \A k \in 1..Len(rt.slept) : rt.slept[k] = rt.delay * 2 ^ (k - 1)
    /\ rt.warns = Len(rt.slept) + (IF rt.pc = "sleep" THEN 1 ELSE 0)
    /\ rt.pc = "call" => n = Len(rt.slept)
    /\ (rt.retries >= 1 /\ n = rt.retries /\ \A i \in 1..n : rt.outs[i] = "api") =>
          /\ rt.pc = "done" /\ rt.out = "api"
          /\ Len(rt.slept) = rt.retries - 1
          /\ rt.warns = rt.retries - 1

\* the callers' three attempts with a delay of 1 all raised the API error
C21_AllFailed ==
    /\ rt.retries = 3 /\ rt.delay = 1
    /\ rt.outs = <<"api", "api", "api">>
    /\ rt.out = "api" /\ rt.pc = "done"
    /\ rt.slept = <<1, 2>>
    /\ rt.warns = 2

\* C22: a discount lookup that fails never fails or ends a checkout.  In
\* AwaitingDiscount a code checked against the empty map load_discounts returns
\* is refused and the state is kept; in Confirming, for a session that stored a
\* code the sheet still has, the run goes on to the Orders rows whatever the
\* lookup returned.
C22_LookupFailureHarmless ==
    [][\A u \in Users :
         /\ (/\ fsm[u] = "AwaitingDiscount"
             /\ last'[u] # last[u]
             /\ last'[u].from = "AwaitingDiscount"
             /\ last'[u].msg \notin {SKIP, CANCEL}
             /\ last'[u].seen = NoDiscounts
             /\ last'[u].raised = "no")
               => fsm'[u] = "AwaitingDiscount" /\ data'[u] = data[u]
         /\ (/\ pc[u] = "c_discount"
             /\ pc'[u] # "c_discount"
             /\ data[u].discount_code \in DOMAIN discounts)
               => fsm'[u] = "Confirming" /\ pc'[u] = "c_append"]_vars

\* C23: a checkout does not start without a destination.  While the session
\* of u has none, no step moves its checkout state or stores a checkout field,
\* so no session in the flow is without one; a checkout begun on a session
\* with a destination enters AwaitingName.
C23_NeedsDestination ==
    /\ [](\A u \in Users :
            fsm[u] \in Intermediate \cup {"Confirming"} => "dest" \in data[u].keys)
    /\ [][\A u \in Users :
            /\ "dest" \notin data[u].keys =>
                  /\ fsm'[u] = fsm[u]
                  /\ runs'[u] = runs[u]
                  /\ data'[u].keys \ {"dest"} = data[u].keys
                  /\ data'[u].cart = data[u].cart
            /\ (runs'[u] = runs[u] + 1 /\ last'[u].raised = "no") =>
                  /\ "dest" \in data[u].keys
                  /\ fsm'[u] = "AwaitingName"]_vars

\* a checkout was begun after a destination had been chosen
C23_Entered ==
    /\ fsm["u1"] = "AwaitingName"
    /\ runs["u1"] = 1
    /\ "dest" \in data["u1"].keys
    /\ data["u1"].name = PROFILE

\* the awaits a handler run can stand at
InHandler == {"read", "write", "append", "clear", "reply"}

\* the requests of u whose handler is running
Running(u) == { r \in Reqs : reqs[r].u = u /\ reqs[r].st \in InHandler }

\* C24: a session handles one update at a time: no two handler runs of one
\* user are ever in flight together, and in particular no two confirm_order
\* runs of one checkout.
C24_OneAtATime ==
    \A u \in Users : Cardinality(Running(u)) <= 1

\* the checkout of u failed while an Orders row was stored, or while the stock
\* was committed
PersistFailed(u) ==
    Count(hist[u], "storage_error") > 0 \/ Count(hist[u], "commit_fail") > 0

\* the admin was sent a message about a failure in the checkout of u
AdminTold(u) == Count(hist[u], "admin_stock_error") > 0

\* C25: whenever the storing of the order or the commit of the stock has
\* failed in Confirming, the admin has been told of the failure by the time the
\* session is cleared, and the admin is told of no other failure of a checkout.
C25_FailuresReachAdmin ==
    \A u \in Users :
       /\ (PersistFailed(u) /\ Count(hist[u], "session_clear") > 0) => AdminTold(u)
       /\ AdminTold(u) => (PersistFailed(u) \/ pc[u] # "idle")

\* C26: in the step in which a checkout reaches Completed the AbandonedCarts
\* log holds no record: the confirmation of an order leaves the log wholly
\* cleared.
C26_ClearedOnCompletion ==
    [][\A u \in Users :
          (fsm[u] # "Completed" /\ fsm'[u] = "Completed") => abandoned' = <<>>]_vars

\* a handler run of u on the cart is over with this step
Ended(u) ==
    \/ pc[u] \in {"gp_probe", "gp_load", "ab_append", "ab_router"} /\ pc'[u] = "idle"
    \/ pc[u] = "idle" /\ pc'[u] = "idle" /\ job'[u].n = job[u].n + 1

\* the cart, and the length of the AbandonedCarts log, when that run began
CartBefore(u) == IF pc[u] = "idle" THEN data[u].cart ELSE job[u].c0
LogBefore(u) == IF pc[u] = "idle" THEN Len(abandoned) ELSE job[u].ab

\* C27: every handler run that changed the cart (an add or increment that
\* succeeded, a decrement, a removal) has appended exactly one record to the
\* AbandonedCarts log, holding the cart as the change left it; in the router as
\* in handle_cart_buttons.
C27_OneRecordPerMutation ==
    [][\A u \in Users :
         (Ended(u) /\ data'[u].cart # CartBefore(u)) =>
            /\ Len(abandoned') = LogBefore(u) + 1
            /\ abandoned'[Len(abandoned')] = [user |-> u, cart |-> data'[u].cart]]_vars

\* the rows of the Orders sheet that belong to user u, in the order of the sheet
UserRows(u) == SelectSeq(orders, LAMBDA r : r.user = u)

\* row r is the row of cart line it in the order of id and time l
RowOf(r, it, l) ==
    /\ r.order_id = l.oid /\ r.ts = l.ts
    /\ r.product_id = it.id /\ r.name = it.fa
    /\ r.qty = it.qty /\ r.unit_price = it.price
    /\ r.subtotal = it.qty * it.price
    /\ r.status = "preparing" /\ r.notified = FALSE

\* C28: a checkout that has reached Completed has appended exactly one Orders
\* row for every line of the cart it came with, in the order of the lines, all
\* with the order id and the timestamp of the run, each with the product id,
\* name, quantity, unit price and subtotal = quantity x unit price of its
\* line, status preparing and notified false.
C28_RowPerLine ==
    \A u \in Users :
       fsm[u] = "Completed" =>
          LET rows == UserRows(u) IN
          /\ Len(rows) = Len(cart0[u])
          /\ \A i \in 1..Len(rows) : RowOf(rows[i], cart0[u][i], loc[u])
          /\ loc[u].oid > 0 /\ loc[u].ts = Now

\* a checkout of two lines, one of them with quantity MaxQty, was completed
C28_TwoLines ==
    \E u \in Users :
       /\ fsm[u] = "Completed"
       /\ Len(cart0[u]) = 2
       /\ Len(UserRows(u)) = 2
       /\ \E i \in 1..2 : cart0[u][i].qty = MaxQty /\ UserRows(u)[i].subtotal = MaxQty * cart0[u][i].price

\* C29: the discount of an order is the one of the Discounts sheet as it is
\* read in Confirming: when the stored code is not on the sheet, not active or
\* out of date at that read, the order gets discount 0, whatever the sheet
\* said when the code was accepted in AwaitingDiscount.
C29_FreshAtCommit ==
    [][\A u \in Users :
         (/\ pc[u] = "c_discount" /\ pc'[u] # "c_discount"
          /\ ~CodeValid(discounts, data[u].discount_code))
            => loc'[u].discount = 0]_vars

\* C30: with no negative stock on the Products sheet to begin with, no
\* interleaving of checkouts ever leaves a negative stock on the sheet or in
\* the cached product map: every value update_stock writes is a stock it read
\* less the quantity of a line, tested to be at least 0 before the write.
C30_NoNegativeStock ==
    /\ \A p \in Products : stock0[p] >= 0 => stock[p] >= 0
    /\ \A p \in DOMAIN cache.data : stock0[p] >= 0 => cache.data[p] >= 0

\* two checkouts wrote the stock of the same product from overlapping reads,
\* and one of them took the last piece
C30_RacedToZero ==
    /\ raced
    /\ \A u \in Users : "p1" \in loc[u].wrote /\ "p1" \in loc[u].cwrote
    /\ stock["p1"] = 0
    /\ cache.data["p1"] = 0

\* C31: update_stock writes the store before the cache and touches the cache
\* only for a line whose store write returned; and once a commit has returned
\* True, every get_products call that begins afterwards in the same process
\* returns the stock of the sheet for the committed product, whatever reload
\* of another session was in flight during the commit.
C31_CommittedStockSeen ==
    /\ \A u \in Users :
          (gp[u].kind = "commit" /\ gp[u].st = "done" /\ gp[u].ok) => gp[u].wrote
    /\ \A u \in Users :
          (gp[u].kind = "get" /\ gp[u].st = "done" /\ gp[u].ok /\ gp[u].late)
             => gp[u].ret["p1"] = stock["p1"]

\* no update_stock call has begun: the Products sheet is as it was
StoreUnchanged == \A u \in Users : gp[u].kind # "commit"

\* C32: while the store does not change, get_products calls of several
\* sessions that find the cache stale leave, in every interleaving, the cache
\* of one complete reload: the map of the sheet, the marker of the sheet and
\* one expiry, as a single refresh would; every call that returns returns that
\* map, and the cached marker is then the marker the call probed.
C32_RefreshIdempotent ==
    StoreUnchanged =>
       \A u \in Users :
          (gp[u].st = "done" /\ gp[u].ok) =>
             /\ cache = Loaded(stock, version, now)
             /\ gp[u].ret = stock
             /\ gp[u].cur = cache.version

\* both sessions found the cache stale by its marker, both reloaded
C32_BothReloaded ==
    /\ version # 0
    /\ \A u \in Users : gp[u].kind = "get" /\ gp[u].st = "done" /\ gp[u].ok
                          /\ gp[u].re /\ gp[u].n = 1

\* the records of a row list that load_products can convert
ValidRows(rows) == { i \in 1..Len(rows) : RowResult(rows[i]) = "ok" }

\* C33: a load never fails over a malformed row: for every row list with at
\* least one valid row load_products returns a map, and the map holds exactly
\* the valid rows under their ids; it fails only when no row is valid.
C33_BadRowsSkipped ==
    ld.st = "done" =>
       LET valid == ValidRows(ld.rows) IN
       /\ (valid # {}) =>
             /\ ld.out = "map"
             /\ DOMAIN ld.products = { ld.rows[i].id : i \in valid }
             /\ \A p \in DOMAIN ld.products : \E i \in valid : ld.rows[i] = ld.products[p]
       /\ (valid = {}) => ld.out = "exit"

\* C34: the reads of the store go through the retrier: a product-list read, a
\* marker probe or a stock read whose first attempt raises an API error is
\* tried again, so the operation around it fails only when the store fails
\* RETRIES attempts in a row.
C34_ReadsRetried ==
    \A u \in Users : gp[u].fails # 0 => gp[u].fails = RETRIES

\* the reminders of a sweep that went to user u
SentTo(u) == SelectSeq(sw.sent, LAMBDA m : m.user = u)

\* the latest record of user u among the records a sweep read
Latest(u) ==
    LET mine == { i \in 1..Len(sw.records) : sw.records[i].user = u }
    IN  sw.records[CHOOSE i \in mine : \A j \in mine : j <= i]

\* C35: a sweep takes the latest record of each user only: it sends a user
\* at most one reminder, and that reminder shows the cart of the user's
\* latest record.
C35_LatestRecordOnly ==
    \A u \in Users :
       /\ Len(SentTo(u)) <= 1
       /\ Len(SentTo(u)) = 1 => SentTo(u)[1].cart = Latest(u).cart

\* C36: a checkout that has ended, in whatever terminal state, has lowered
\* the stock of every product on the sheet by exactly the quantity of that
\* product in the Orders rows it stored: by nothing when it stored no row.
C36_StockFollowsOrder ==
    \A u \in Users :
       (pc[u] = "idle" /\ fsm[u] \in Terminal) =>
          \A p \in Products : stock0[p] - stock[p] = Ordered(p)

\* C37: the rows of an order are stored all or none: when confirm_order has
\* ended, the Orders sheet holds either no row of the checkout or one for
\* every line of its cart, and the storage-error message was shown only when
\* it holds none.
C37_AllOrNothing ==
    \A u \in Users :
       (pc[u] = "idle" /\ fsm[u] \in Terminal) =>
          /\ Cardinality(RowsBy(u)) \in {0, Len(cart0[u])}
          /\ Count(hist[u], "storage_error") > 0 => RowsBy(u) = {}

\* the update_cell calls a run made for cart line i
WritesFor(i) == { k \in 1..Len(pr.writes) : pr.writes[k].line = i }

\* C38: update_stock returns True only when every line of the cart had its
\* product on the sheet it read and lowered that product's stock by the
\* line's quantity exactly once; a line whose product is not on the sheet
\* makes it return False.
C38_CommitCoversCart ==
    (pr.st = "done" /\ pr.ok) =>
       \A i \in 1..Len(pr.cart) :
          /\ \E j \in 1..Len(pr.records) : pr.records[j].id = pr.cart[i].id
          /\ Cardinality(WritesFor(i)) = 1
          /\ \A k \in WritesFor(i) :
                pr.writes[k].value = pr.records[pr.writes[k].row].stock - pr.cart[i].qty

\* C39: for every completed checkout the discount lies between 0 and the
\* subtotal of the cart, and so does the total charged, whatever row the
\* discount lookup returned.
C39_DiscountInRange ==
    \A u \in Users :
       fsm[u] = "Completed" =>
          LET sub == cart_total(cart0[u]) IN
          /\ 0 <= loc[u].discount /\ loc[u].discount <= sub
          /\ 0 <= loc[u].total /\ loc[u].total <= sub

\* C40: in a behaviour where the poller runs again and again and no run
\* raises, every Orders row whose status is shipped is eventually notified as
\* shipped to its user, also a row notified while it was preparing and a row
\* at or below the mark.
C40_ShippedNotified ==
    [](~po.failed) =>
       \A k \in 1..MaxOrders :
          (k <= Len(po.sheet) /\ po.sheet[k].status = "shipped")
             ~> ([row |-> k + 1, status |-> "shipped"] \in po.sent)

====
